---- MODULE Spec2Model ----
(***************************************************************************)
(* A model of the stateful parts of the Sim workflow builder:              *)
(*   - the collaborative-editing hook (use-collaborative-workflow.ts),     *)
(*   - the webhook provider utilities (lib/webhooks/utils.ts),             *)
(*   - the step-debug handlers of the workflow-execution hook,             *)
(*   - the SessionRequestBlocker (lib/session-blocker.ts),                 *)
(*   - the get-session throttle of the auth route (api/auth/[...all]),     *)
(*   - the error enhancement of the function-execute route,                *)
(*   - the deploy and undeploy handlers of the deploy modal.               *)
(* Each subsystem has its own specification over its own variables; the    *)
(* variables of the other subsystems are held constant by it.              *)
(***************************************************************************)
EXTENDS Integers, Sequences, FiniteSets, TLC

(***************************************************************************)
(* Bounds of the model.                                                    *)
(***************************************************************************)
MaxTs == 2
MaxUuid == 3
MaxQueue == 3
MaxX == 300
MaxCalls == 2

(***************************************************************************)
(* ----------------------- Collaborative hook ---------------------------- *)
(***************************************************************************)
VARIABLES
  blockConfig,              \* getBlock("agent").subBlocks: dependsOn of each sub-block
  activeWorkflowId,         \* useWorkflowRegistry().activeWorkflowId
  currentWorkflowId,        \* useSocket().currentWorkflowId (the joined room)
  isShowingDiff,            \* useWorkflowDiffStore().isShowingDiff
  isApplyingRemoteChange,   \* the ref of line 47
  lastPositionTimestamps,   \* the Map of line 50, a function on the ids it holds
  blocks,                   \* workflowStore.blocks
  subBlockValues,           \* subBlockStore values of the active workflow
  variables,                \* variablesStore.variables (the ids it holds)
  queue,                    \* the operation queue
  nextUuid,                 \* crypto.randomUUID(): the ids handed out so far
  remotePc,                 \* "idle", or "applying" inside a remote handler
  callLog,                  \* the effects of the most recent call, in order
  calls,                    \* the number of local calls made so far
  newest,                   \* per block: the newest timestamped position update received
  dirty                     \* per block: position last set by something else

collabVars == <<blockConfig, activeWorkflowId, currentWorkflowId, isShowingDiff,
                isApplyingRemoteChange, lastPositionTimestamps, blocks,
                subBlockValues, variables, queue, nextUuid, remotePc,
                callLog, calls, newest, dirty>>

(***************************************************************************)
(* State of the other subsystems.                                          *)
(***************************************************************************)
VARIABLES
  airDb,                    \* webhook.providerConfig.externalWebhookCursor in the database
  air,                      \* per invocation of fetchAndProcessAirtablePayloads: its locals
  slack,                    \* the last call of validateSlackSignature and its result
  generic,                  \* the last call of verifyProviderWebhook and its result
  whatsapp,                 \* the last call of handleWhatsAppVerification and its result
  executor,                 \* useExecutionStore().executor
  debugContext,             \* useExecutionStore().debugContext
  pendingBlocks,            \* useExecutionStore().pendingBlocks
  isExecuting,              \* useExecutionStore().isExecuting
  isDebugging,              \* useExecutionStore().isDebugging
  step,                     \* the running handleStepDebug: where it is, what it did
  pendingRequest,           \* SessionRequestBlocker.pendingRequest
  lastResponse,             \* SessionRequestBlocker.lastResponse
  lastFetchTime,            \* SessionRequestBlocker.lastFetchTime
  clock,                    \* Date.now()
  fetches,                  \* the /api/auth/get-session fetches made, by number
  callers                   \* per caller of getSession: where it is, what it got

airVars == <<airDb, air>>
verifyVars == <<slack, generic, whatsapp>>
debugVars == <<executor, debugContext, pendingBlocks, isExecuting, isDebugging, step>>
sessionVars == <<pendingRequest, lastResponse, lastFetchTime, clock, fetches,
                 callers>>

(***************************************************************************)
(* State of the get-session throttle of the auth route.                    *)
(***************************************************************************)
VARIABLES
  sessionThrottle,          \* the Map of line 7, a total function with NoEntry
  throttleTimers,           \* the setTimeout callbacks of lines 48-50 not yet run
  throttleClock,            \* Date.now() of the server
  gets,                     \* per GET being served: where it is, what it replied
  getCount,                 \* the number of GETs received so far
  populated                 \* per client id: the reply that last populated the cache

throttleVars == <<sessionThrottle, throttleTimers, throttleClock, gets, getCount,
                  populated>>

(***************************************************************************)
(* State of the function-execute route.                                    *)
(***************************************************************************)
VARIABLES
  enhance                   \* the last failed execution and what the route reported

enhanceVars == <<enhance>>

(***************************************************************************)
(* State of the deploy modal.                                              *)
(***************************************************************************)
VARIABLES
  deployStore,              \* the registry's record of the workflow: its deployment status
  modal,                    \* the state of the DeployModal component and its props
  attempts,                 \* per handler (deploy, redeploy, undeploy): where it is
  attemptCount              \* the number of attempts started so far

deployVars == <<deployStore, modal, attempts, attemptCount>>

(***************************************************************************)
(* State of the reload of a reverted workflow (collaborative hook).        *)
(***************************************************************************)
VARIABLES
  reload                    \* handleWorkflowReverted: where it is, what it did

reloadVars == <<reload>>

restVars == <<throttleVars, enhanceVars, deployVars, reloadVars>>

nonCollabVars == <<airVars, verifyVars, debugVars, sessionVars, restVars>>

vars == <<collabVars, airVars, verifyVars, debugVars, sessionVars, restVars>>

BlockIds == {"b1", "b2"}
SubIds == {"s1", "s2"}
VarIds == {"v1"}
WorkflowIds == {"w1", "w2"}
\* positions are their x coordinate; the payloads of the modelled updates
Positions == {0, 1}
NoWorkflow == "null"
NoBlock == [type |-> "absent", position |-> -1]
NoTs == -1
\* data.timestamp of a remote operation: missing, or a number (0 included)
Timestamps == {NoTs} \cup (0 .. MaxTs)

(***************************************************************************)
(* Stores used by the hook.                                                *)
(***************************************************************************)
\* workflowStore.updateBlockPosition(id, position)
updateBlockPosition(bs, id, position) ==
  [bs EXCEPT ![id] = [type |-> IF @ = NoBlock THEN "undefined" ELSE @.type,
                      position |-> position]]

\* workflowStore.addBlock(id, type, name, position, ...)
addBlock(bs, id, type, position) ==
  [bs EXCEPT ![id] = [type |-> type, position |-> position]]

\* workflowStore.removeBlock(id)
removeBlock(bs, id) == [bs EXCEPT ![id] = NoBlock]

\* Map.get(blockId) || 0
MapGetOrZero(m, k) == IF k \in DOMAIN m /\ m[k] # 0 THEN m[k] ELSE 0

\* Map.set(k, v)
MapSet(m, k, v) == [x \in (DOMAIN m) \cup {k} |-> IF x = k THEN v ELSE m[x]]

\* a Map whose delete removes nothing
MapDeleteNothing(m, k) == m

\* Map.delete(k)
MapDelete(m, k) == [x \in (DOMAIN m) \ {k} |-> m[x]]

\* Map.clear()
MapClear(m) == [x \in {} |-> 0]

\* isInActiveRoom(): !!currentWorkflowId && activeWorkflowId === currentWorkflowId
isInActiveRoom == currentWorkflowId # NoWorkflow /\ activeWorkflowId = currentWorkflowId

(***************************************************************************)
(* Bookkeeping for the position-ordering claims: newest[b] is, of the      *)
(* timestamped remote position updates applied to b since its tracking was *)
(* last reset, the one with the greatest timestamp (the last received      *)
(* among equal timestamps); dirty[b] says that something else has set b's  *)
(* position since.                                                         *)
(***************************************************************************)
NoUpdate == [seen |-> FALSE, timestamp |-> 0, position |-> 0]

\* an update with this timestamp is not older than the newest one received
NotOlder(ts, n) == ~n.seen \/ ts >= n.timestamp

Touch(b) == [dirty EXCEPT ![b] = newest[b].seen]

NoLog == [name |-> "none", remote |-> FALSE, diff |-> FALSE, inRoom |-> FALSE,
          log |-> <<>>, args |-> <<>>, update |-> [block |-> "", timestamp |-> 0, position |-> 0]]

CallEntry(name) == [NoLog EXCEPT !.name = name, !.remote = isApplyingRemoteChange,
                                   !.diff = isShowingDiff, !.inRoom = isInActiveRoom]

(***************************************************************************)
(* Remote events.  A handler is synchronous: it sets the flag, applies the *)
(* change to the stores (whose subscribers may call back into the hook     *)
(* while the handler is still on the stack), and clears the flag in its    *)
(* finally block.  remotePc = "applying" is the time between the two.      *)
(***************************************************************************)
\* a handler that takes no update for one without timestamp
MissingTimestampNever(ts) == FALSE

\* the test of line 132: !data.timestamp
MissingTimestamp(ts) == ts = NoTs \/ ts = 0

\* a strict comparison in place of the test of line 143
InOrderStrict(updateTimestamp, lastTimestamp) == updateTimestamp > lastTimestamp

\* the test of line 143
InOrder(updateTimestamp, lastTimestamp) == updateTimestamp >= lastTimestamp

\* case 'update-position' of handleWorkflowOperation, lines 129-156
RemoteUpdatePosition(b, ts, p, throws) ==
  /\ remotePc = "idle"
  /\ IF isApplyingRemoteChange
       THEN /\ callLog' = NoLog
            /\ UNCHANGED <<isApplyingRemoteChange, remotePc, blocks,
                           lastPositionTimestamps, newest, dirty>>
       ELSE /\ isApplyingRemoteChange' = TRUE
            /\ remotePc' = "applying"
            /\ IF throws
                 THEN /\ callLog' = NoLog
                      /\ UNCHANGED <<blocks, lastPositionTimestamps, newest, dirty>>
                 ELSE IF MissingTimestamp(ts)
                   THEN /\ callLog' = [NoLog EXCEPT !.name = "update-position",
                                         !.update = [block |-> b, timestamp |-> ts,
                                                     position |-> p]]
                        /\ blocks' = updateBlockPosition(blocks, b, p)
                        /\ dirty' = Touch(b)
                        /\ UNCHANGED <<lastPositionTimestamps, newest>>
                   ELSE /\ callLog' = [NoLog EXCEPT !.name = "update-position",
                                         !.update = [block |-> b, timestamp |-> ts,
                                                     position |-> p]]
                        /\ IF InOrder(ts, MapGetOrZero(lastPositionTimestamps, b))
                             THEN /\ blocks' = updateBlockPosition(blocks, b, p)
                                  /\ lastPositionTimestamps' =
                                       MapSet(lastPositionTimestamps, b, ts)
                             ELSE UNCHANGED <<blocks, lastPositionTimestamps>>
                        /\ newest' = [newest EXCEPT ![b] =
                                       IF NotOlder(ts, @)
                                         THEN [seen |-> TRUE, timestamp |-> ts,
                                               position |-> p]
                                         ELSE @]
                        /\ dirty' = [dirty EXCEPT ![b] =
                                       IF NotOlder(ts, newest[b]) THEN FALSE ELSE @]
  /\ UNCHANGED nonCollabVars
  /\ UNCHANGED <<calls, blockConfig, activeWorkflowId, currentWorkflowId, isShowingDiff, subBlockValues,
                 variables, queue, nextUuid>>

\* case 'remove' of handleWorkflowOperation, lines 160-164
RemoteRemoveBlock(b, throws) ==
  /\ remotePc = "idle"
  /\ IF isApplyingRemoteChange
       THEN /\ callLog' = NoLog
            /\ UNCHANGED <<isApplyingRemoteChange, remotePc, blocks,
                           lastPositionTimestamps, newest, dirty>>
       ELSE /\ isApplyingRemoteChange' = TRUE
            /\ remotePc' = "applying"
            /\ IF throws
                 THEN /\ callLog' = NoLog
                      /\ UNCHANGED <<blocks, lastPositionTimestamps, newest, dirty>>
                 ELSE /\ callLog' = [NoLog EXCEPT !.name = "remove", !.update.block = b]
                      /\ blocks' = removeBlock(blocks, b)
                      /\ lastPositionTimestamps' = MapDelete(lastPositionTimestamps, b)
                      /\ newest' = [newest EXCEPT ![b] = NoUpdate]
                      /\ dirty' = [dirty EXCEPT ![b] = FALSE]
  /\ UNCHANGED nonCollabVars
  /\ UNCHANGED <<calls, blockConfig, activeWorkflowId, currentWorkflowId, isShowingDiff, subBlockValues,
                 variables, queue, nextUuid>>

\* case 'add' of handleWorkflowOperation, lines 107-128
RemoteAddBlock(b, type, p, throws) ==
  /\ remotePc = "idle"
  /\ callLog' = NoLog
  /\ IF isApplyingRemoteChange
       THEN UNCHANGED <<isApplyingRemoteChange, remotePc, blocks, dirty>>
       ELSE /\ isApplyingRemoteChange' = TRUE
            /\ remotePc' = "applying"
            /\ IF throws
                 THEN UNCHANGED <<blocks, dirty>>
                 ELSE /\ blocks' = addBlock(blocks, b, type, p)
                      /\ dirty' = Touch(b)
  /\ UNCHANGED nonCollabVars
  /\ UNCHANGED <<calls, blockConfig, activeWorkflowId, currentWorkflowId, isShowingDiff, subBlockValues,
                 variables, queue, nextUuid, lastPositionTimestamps, newest>>

\* handleSubblockUpdate, lines 286-303
HandleSubblockUpdate(b, sb, value, throws) ==
  /\ remotePc = "idle"
  /\ callLog' = NoLog
  /\ IF isApplyingRemoteChange
       THEN UNCHANGED <<isApplyingRemoteChange, remotePc, subBlockValues>>
       ELSE /\ isApplyingRemoteChange' = TRUE
            /\ remotePc' = "applying"
            /\ IF throws
                 THEN UNCHANGED subBlockValues
                 ELSE subBlockValues' = [subBlockValues EXCEPT ![b][sb] = value]
  /\ UNCHANGED nonCollabVars
  /\ UNCHANGED <<calls, blockConfig, activeWorkflowId, currentWorkflowId, isShowingDiff, blocks,
                 variables, queue, nextUuid, lastPositionTimestamps,
                 newest, dirty>>

\* a handler that returns and leaves the flag as it is
RemoteReturnKeepingFlag ==
  /\ remotePc = "applying"
  /\ remotePc' = "idle"
  /\ callLog' = NoLog
  /\ UNCHANGED nonCollabVars
  /\ UNCHANGED <<calls, blockConfig, activeWorkflowId, currentWorkflowId, isShowingDiff, blocks,
                 subBlockValues, variables, queue, nextUuid, isApplyingRemoteChange,
                 lastPositionTimestamps, newest, dirty>>

\* the finally blocks of lines 281-283, 300-302, 324-326 and 398-400
RemoteReturn ==
  /\ remotePc = "applying"
  /\ isApplyingRemoteChange' = FALSE
  /\ remotePc' = "idle"
  /\ callLog' = NoLog
  /\ UNCHANGED nonCollabVars
  /\ UNCHANGED <<calls, blockConfig, activeWorkflowId, currentWorkflowId, isShowingDiff, blocks,
                 subBlockValues, variables, queue, nextUuid,
                 lastPositionTimestamps, newest, dirty>>

\* the effect of lines 69-81, run after activeWorkflowId or currentWorkflowId changed
WorkflowIdsChange(active, current) ==
  /\ remotePc = "idle"
  /\ <<active, current>> # <<activeWorkflowId, currentWorkflowId>>
  /\ activeWorkflowId' = active
  /\ currentWorkflowId' = current
  /\ IF active # NoWorkflow /\ current # active
       THEN /\ lastPositionTimestamps' = MapClear(lastPositionTimestamps)
            /\ newest' = [b \in BlockIds |-> NoUpdate]
            /\ dirty' = [b \in BlockIds |-> FALSE]
       ELSE UNCHANGED <<lastPositionTimestamps, newest, dirty>>
  /\ callLog' = NoLog
  /\ UNCHANGED nonCollabVars
  /\ UNCHANGED <<calls, blockConfig, isShowingDiff, isApplyingRemoteChange, blocks, subBlockValues,
                 variables, queue, nextUuid, remotePc>>

(***************************************************************************)
(* Local collaborative operations.  A call is a function from the stores   *)
(* and the queue to their values when it returns; log lists its effects in *)
(* the order the code performs them.                                       *)
(***************************************************************************)
Values == {"", "v"}
BlockTypes == {"agent", "loop"}
SubOrder == <<"s1", "s2">>
\* the x offset of a duplicated block, line 959
DuplicateOffsetX == 250

Cur == [blocks |-> blocks, sub |-> subBlockValues, vars |-> variables,
        queue |-> queue, uuid |-> nextUuid, log |-> <<>>]

Ev(ev, id, operation, target, subject) ==
  [ev |-> ev, id |-> id, operation |-> operation, target |-> target,
   subject |-> subject]

Stores(bs, sub, vs) == [blocks |-> bs, sub |-> sub, vars |-> vs]

\* addToQueue({id: crypto.randomUUID(), operation: {operation, target, payload}, ...})
addToQueue(st, operation, target, subject, detail) ==
  LET operationId == st.uuid + 1
  IN [st EXCEPT !.uuid = operationId,
                !.queue = Append(@, [id |-> operationId, operation |-> operation,
                                     target |-> target, subject |-> subject,
                                     detail |-> detail]),
                !.log = Append(@, Ev("enqueue", operationId, operation, target, subject))]

\* a write to the workflow, sub-block or variable store
ApplyLocal(st, operation, target, subject, local) ==
  [st EXCEPT !.blocks = local.blocks, !.sub = local.sub, !.vars = local.vars,
             !.log = Append(@, Ev("write", 0, operation, target, subject))]

\* a localAction callback: it is invoked, and writes unless it is () => {}
NoWrite == [none |-> TRUE]

InvokeLocalAction(st, operation, target, subject, local) ==
  LET invoked == [st EXCEPT !.log = Append(@, Ev("localAction", 0, operation,
                                                  target, subject))]
  IN IF "none" \in DOMAIN local THEN invoked
     ELSE ApplyLocal(invoked, operation, target, subject, local)

\* entry into executeQueuedOperation ("execute") or its debounced variant
Entered(st, which, operation, target, subject) ==
  [st EXCEPT !.log = Append(@, Ev(which, 0, operation, target, subject))]

\* emitWorkflowOperation(operation, target, payload)
emitWorkflowOperation(st, operation, target, subject, detail) ==
  [st EXCEPT !.log = Append(@, Ev("emit", 0, operation, target, subject))]

\* cancelOperationsForBlock(id) / cancelOperationsForVariable(id)
cancelOperationsFor(st, subject) ==
  [st EXCEPT !.queue = SelectSeq(@, LAMBDA e : e.subject # subject),
             !.log = Append(@, Ev("cancel", 0, "cancel", "queue", subject))]

\* executeQueuedOperation without the test of isApplyingRemoteChange
executeQueuedOperationEchoing(st, operation, target, subject, detail, local) ==
  LET e == Entered(st, "execute", operation, target, subject)
  IN IF isShowingDiff THEN e
     ELSE IF ~isInActiveRoom THEN e
     ELSE InvokeLocalAction(addToQueue(e, operation, target, subject, detail),
                            operation, target, subject, local)

\* executeQueuedOperation, lines 465-510; local is the stores after localAction
executeQueuedOperation(st, operation, target, subject, detail, local) ==
  LET e == Entered(st, "execute", operation, target, subject)
  IN IF isApplyingRemoteChange THEN e
     ELSE IF isShowingDiff THEN e
     ELSE IF ~isInActiveRoom THEN e
     ELSE InvokeLocalAction(addToQueue(e, operation, target, subject, detail),
                            operation, target, subject, local)

\* executeQueuedDebouncedOperation, lines 512-536
executeQueuedDebouncedOperation(st, operation, target, subject, detail, local) ==
  LET e == Entered(st, "executeDebounced", operation, target, subject)
  IN IF isApplyingRemoteChange THEN e
     ELSE IF isShowingDiff THEN e
     ELSE IF ~isInActiveRoom THEN e
     ELSE emitWorkflowOperation(
            InvokeLocalAction(e, operation, target, subject, local),
            operation, target, subject, detail)

\* getBlock(type): only "agent" has a BlockConfig here
HasBlockConfig(type) == type = "agent"

\* collaborativeAddBlock, lines 538-698
collaborativeAddBlock(st, id, type, position) ==
  LET local == Stores(addBlock(st.blocks, id, type, position), st.sub, st.vars)
  IN IF isShowingDiff THEN st
     ELSE IF ~isInActiveRoom THEN st
     ELSE IF ~HasBlockConfig(type) /\ type \in {"loop", "parallel"}
       THEN IF isApplyingRemoteChange
              THEN ApplyLocal(st, "add", "block", id, local)
              ELSE ApplyLocal(addToQueue(st, "add", "block", id, type),
                              "add", "block", id, local)
     ELSE IF ~HasBlockConfig(type) THEN st
     ELSE IF isApplyingRemoteChange THEN st
     ELSE ApplyLocal(addToQueue(st, "add", "block", id, type),
                     "add", "block", id, local)

\* collaborativeRemoveBlock, lines 700-707
collaborativeRemoveBlock(st, id) ==
  LET c == cancelOperationsFor(st, id)
  IN executeQueuedOperation(c, "remove", "block", id, "",
                            Stores(removeBlock(c.blocks, id), c.sub, c.vars))

\* collaborativeUpdateBlockPosition, lines 709-716
collaborativeUpdateBlockPosition(st, id, position) ==
  executeQueuedDebouncedOperation(st, "update-position", "block", id, "",
      Stores(updateBlockPosition(st.blocks, id, position), st.sub, st.vars))

\* collaborativeUpdateLoopType, lines 1064-1089 (the loop's data is not modelled)
collaborativeUpdateLoopType(st, loopId) ==
  IF st.blocks[loopId] = NoBlock \/ st.blocks[loopId].type # "loop" THEN st
  ELSE executeQueuedOperation(st, "update", "subflow", loopId, "",
                              Stores(st.blocks, st.sub, st.vars))

\* collaborativeAddVariable, lines 1236-1255
collaborativeAddVariable(st, id) ==
  LET added == ApplyLocal(st, "add", "variable", id,
                          Stores(st.blocks, st.sub, st.vars \cup {id}))
  IN executeQueuedOperation(added, "add", "variable", id, "", NoWrite)

\* collaborativeDeleteVariable, lines 1257-1266
collaborativeDeleteVariable(st, variableId) ==
  LET c == cancelOperationsFor(st, variableId)
  IN executeQueuedOperation(c, "remove", "variable", variableId, "",
                            Stores(c.blocks, c.sub, c.vars \ {variableId}))

\* collaborativeSetTagSelection, lines 900-940
collaborativeSetTagSelection(st, blockId, subblockId, value) ==
  IF isApplyingRemoteChange THEN st
  ELSE IF ~isInActiveRoom THEN st
  ELSE addToQueue(ApplyLocal(st, "subblock-update", "subblock", blockId,
                     Stores(st.blocks, [st.sub EXCEPT ![blockId][subblockId] = value],
                            st.vars)),
                  "subblock-update", "subblock", blockId, subblockId)

\* collaborativeDuplicateBlock, lines 942-1062; newId is the crypto.randomUUID()
\* of line 957
collaborativeDuplicateBlock(st, sourceId, newId) ==
  IF ~isInActiveRoom THEN st
  ELSE IF st.blocks[sourceId] = NoBlock THEN st
  ELSE LET sourceBlock == st.blocks[sourceId]
           offsetPosition == sourceBlock.position + DuplicateOffsetX
           added == ApplyLocal(st, "duplicate", "block", newId,
                      Stores(addBlock(st.blocks, newId, sourceBlock.type, offsetPosition),
                             st.sub, st.vars))
           subBlockValuesOfSource == st.sub[sourceId]
       IN executeQueuedOperation(added, "duplicate", "block", newId, sourceId,
            Stores(addBlock(added.blocks, newId, sourceBlock.type, offsetPosition),
                   IF activeWorkflowId # NoWorkflow
                     THEN [added.sub EXCEPT ![newId] = subBlockValuesOfSource]
                     ELSE added.sub,
                   added.vars))

\* collaborativeSetSubblockValue, lines 828-897.  acc = [st, visited]: the
\* _visited set is one object shared by the whole cascade.
RECURSIVE SetSubblockValueRec(_, _, _, _)
RECURSIVE ClearDependents(_, _, _, _)

\* the loop of lines 877-882 over the dependents, in configuration order from i
ClearDependents(acc, blockId, subblockId, i) ==
  IF i > Len(SubOrder) THEN acc
  ELSE LET dep == SubOrder[i]
       IN IF subblockId \in blockConfig[dep] /\ dep # subblockId
            THEN ClearDependents(SetSubblockValueRec(acc, blockId, dep, ""),
                                 blockId, subblockId, i + 1)
            ELSE ClearDependents(acc, blockId, subblockId, i + 1)

SetSubblockValueRec(acc, blockId, subblockId, value) ==
  IF isApplyingRemoteChange THEN acc
  ELSE IF isShowingDiff THEN acc
  ELSE IF ~isInActiveRoom THEN acc
  ELSE LET queued == addToQueue(acc.st, "subblock-update", "subblock", blockId,
                                subblockId)
           written == ApplyLocal(queued, "subblock-update", "subblock", subblockId,
                        Stores(queued.blocks,
                               [queued.sub EXCEPT ![blockId][subblockId] = value],
                               queued.vars))
       IN IF subblockId \in acc.visited THEN [acc EXCEPT !.st = written]
          ELSE LET next == [st |-> written, visited |-> acc.visited \cup {subblockId}]
               IN IF written.blocks[blockId] # NoBlock
                       /\ HasBlockConfig(written.blocks[blockId].type)
                    THEN ClearDependents(next, blockId, subblockId, 1)
                    ELSE next

collaborativeSetSubblockValue(st, blockId, subblockId, value) ==
  SetSubblockValueRec([st |-> st, visited |-> {}], blockId, subblockId, value).st

(***************************************************************************)
(* The calls as actions.                                                   *)
(***************************************************************************)
DirtyAfter(newBlocks) ==
  [b \in BlockIds |-> IF newBlocks[b].position # blocks[b].position
                        THEN newest[b].seen ELSE dirty[b]]

\* a call of the hook with the arguments args, returning with the stores and
\* the queue as in r
CallWith(name, args, r) ==
  /\ calls < MaxCalls
  /\ calls' = calls + 1
  /\ r.uuid <= MaxUuid
  /\ Len(r.queue) <= MaxQueue
  /\ blocks' = r.blocks
  /\ subBlockValues' = r.sub
  /\ variables' = r.vars
  /\ queue' = r.queue
  /\ nextUuid' = r.uuid
  /\ callLog' = [CallEntry(name) EXCEPT !.log = r.log, !.args = args]
  /\ dirty' = DirtyAfter(r.blocks)
  /\ UNCHANGED nonCollabVars
  /\ UNCHANGED <<blockConfig, activeWorkflowId, currentWorkflowId, isShowingDiff,
                 isApplyingRemoteChange, lastPositionTimestamps, remotePc, newest>>

Call(name, r) == CallWith(name, <<>>, r)

AddBlock(id, type, position) ==
  Call("collaborativeAddBlock", collaborativeAddBlock(Cur, id, type, position))

RemoveBlock(id) ==
  Call("collaborativeRemoveBlock", collaborativeRemoveBlock(Cur, id))

UpdateBlockPosition(id, position) ==
  Call("collaborativeUpdateBlockPosition",
       collaborativeUpdateBlockPosition(Cur, id, position))

UpdateLoopType(id) ==
  Call("collaborativeUpdateLoopType", collaborativeUpdateLoopType(Cur, id))

AddVariable(id) ==
  /\ id \notin variables
  /\ Call("collaborativeAddVariable", collaborativeAddVariable(Cur, id))

DeleteVariable(id) ==
  Call("collaborativeDeleteVariable", collaborativeDeleteVariable(Cur, id))

SetTagSelection(b, sb, value) ==
  Call("collaborativeSetTagSelection", collaborativeSetTagSelection(Cur, b, sb, value))

SetSubblockValue(b, sb, value) ==
  CallWith("collaborativeSetSubblockValue", <<sb, value>>,
           collaborativeSetSubblockValue(Cur, b, sb, value))

DuplicateBlock(sourceId, newId) ==
  /\ blocks[newId] = NoBlock
  /\ blocks[sourceId].position + DuplicateOffsetX <= MaxX
  /\ Call("collaborativeDuplicateBlock", collaborativeDuplicateBlock(Cur, sourceId, newId))

\* handleOperationConfirmed, lines 418-422: the server confirmed an operation
OperationConfirmed(operationId) ==
  /\ remotePc = "idle"
  /\ \E i \in 1 .. Len(queue) : queue[i].id = operationId
  /\ queue' = SelectSeq(queue, LAMBDA e : e.id # operationId)
  /\ callLog' = NoLog
  /\ UNCHANGED nonCollabVars
  /\ UNCHANGED <<calls, blockConfig, activeWorkflowId, currentWorkflowId, isShowingDiff,
                 isApplyingRemoteChange, lastPositionTimestamps, blocks,
                 subBlockValues, variables, nextUuid, remotePc, newest,
                 dirty>>

\* the diff store shows or hides a diff
SetShowingDiff(showing) ==
  /\ remotePc = "idle"
  /\ isShowingDiff # showing
  /\ isShowingDiff' = showing
  /\ callLog' = NoLog
  /\ UNCHANGED nonCollabVars
  /\ UNCHANGED <<calls, blockConfig, activeWorkflowId, currentWorkflowId,
                 isApplyingRemoteChange, lastPositionTimestamps, blocks,
                 subBlockValues, variables, queue, nextUuid, remotePc,
                 newest, dirty>>

\* the hook after its first render, whatever the block configuration is
HookInit ==
  /\ activeWorkflowId = "w1"
  /\ currentWorkflowId = "w1"
  /\ isShowingDiff = FALSE
  /\ isApplyingRemoteChange = FALSE
  /\ lastPositionTimestamps = [x \in {} |-> 0]
  /\ blocks = [b \in BlockIds |-> IF b = "b1" THEN [type |-> "agent", position |-> 0]
                                   ELSE NoBlock]
  /\ subBlockValues = [b \in BlockIds |-> [sb \in SubIds |-> ""]]
  /\ variables = {}
  /\ queue = <<>>
  /\ nextUuid = 0
  /\ remotePc = "idle"
  /\ callLog = NoLog
  /\ calls = 0
  /\ newest = [b \in BlockIds |-> NoUpdate]
  /\ dirty = [b \in BlockIds |-> FALSE]

\* the block configuration: s2 depends on s1
CollabInit ==
  /\ blockConfig = [sb \in SubIds |-> IF sb = "s2" THEN {"s1"} ELSE {}]
  /\ HookInit

\* every dependsOn graph over the sub-blocks
DependsOnGraphs == [SubIds -> SUBSET SubIds]


(***************************************************************************)
(* ------------- fetchAndProcessAirtablePayloads (webhooks/utils.ts) ----- *)
(***************************************************************************)
MaxCursor == 2

nonAirVars == <<collabVars, verifyVars, debugVars, sessionVars, restVars>>

Invocations == {"i1", "i2"}
PayloadIds == {"p1", "p2"}

\* a cursor value: null or undefined, a number, or a value that is no number
NullCursor == [kind |-> "null", n |-> 0]
NumberCursor(n) == [kind |-> "number", n |-> n]
StringCursor == [kind |-> "string", n |-> 0]

\* responseBody.cursor as the Airtable API may send it
ResponseCursors ==
  {NullCursor, StringCursor} \cup {NumberCursor(n) : n \in 0 .. MaxCursor}

\* the outcomes of one GET /payloads
Responses ==
  {[kind |-> "network", cursor |-> NullCursor, mightHaveMore |-> FALSE, payloads |-> {}],
   [kind |-> "error", cursor |-> NullCursor, mightHaveMore |-> FALSE, payloads |-> {}]}
  \cup [kind : {"ok"}, cursor : ResponseCursors, mightHaveMore : BOOLEAN,
        payloads : SUBSET PayloadIds]

\* the limit of line 959
AirtableCallLimit == 10

\* a limit one call higher than that of line 959
ReachedLimitLate(apiCallCount) == apiCallCount > AirtableCallLimit + 1

\* apiCallCount > 10, line 959
ReachedLimit(apiCallCount) == apiCallCount > AirtableCallLimit

\* c && typeof c === 'number', lines 916 and 1135
IsTruthyNumber(c) == c.kind = "number" /\ c.n # 0

\* the locals of an invocation that has not started
AirIdle ==
  [pc |-> "idle", localCursor |-> NullCursor, currentCursor |-> NullCursor,
   mightHaveMore |-> TRUE, apiCallCount |-> 0, allPayloads |-> {},
   result |-> "none",
   \* what the invocation did, kept for the properties:
   stored |-> NullCursor,     \* storedCursor of line 881
   requests |-> 0,            \* GET /payloads requests issued
   reqCursor |-> NullCursor,  \* the cursor parameter of the last request
   respCursor |-> NullCursor, \* the new numeric cursor of the last response, if any
   respPayloads |-> {},       \* receivedPayloads of the last response
   wrote |-> NullCursor,      \* the cursor written to the database since that response
   allMore |-> TRUE]          \* every response so far had a new cursor and mightHaveMore

\* lines 842-878: the call, with the providerConfig the caller read; the ids,
\* the credential and its owner are present or the function returns
Invoke(i, configOk) ==
  /\ air[i].pc \in {"idle", "done"}
  /\ UNCHANGED nonAirVars
  /\ air' = [air EXCEPT ![i] =
       IF configOk
         THEN [AirIdle EXCEPT !.pc = "cursor", !.localCursor = airDb]
         ELSE [AirIdle EXCEPT !.pc = "done", !.localCursor = airDb,
                              !.result = "undefined"]]
  /\ UNCHANGED airDb

\* lines 880-926: the stored cursor, initialised in the database when missing
InitCursor(i, dbOk) ==
  /\ air[i].pc = "cursor"
  /\ UNCHANGED nonAirVars
  /\ LET storedCursor == air[i].localCursor IN
       /\ airDb' = IF storedCursor.kind = "null" /\ dbOk THEN NullCursor ELSE airDb
       /\ air' = [air EXCEPT ![i].pc = "token",
                             ![i].stored = storedCursor,
                             ![i].localCursor =
                               IF storedCursor.kind = "null" THEN NullCursor ELSE @,
                             ![i].currentCursor =
                               IF IsTruthyNumber(storedCursor) THEN storedCursor
                                                               ELSE NullCursor]

\* lines 928-951: the access token, or an early return
GetToken(i, ok) ==
  /\ air[i].pc = "token"
  /\ UNCHANGED nonAirVars
  /\ air' = [air EXCEPT ![i].pc = IF ok THEN "loop" ELSE "done",
                        ![i].result = IF ok THEN @ ELSE "undefined"]
  /\ UNCHANGED airDb

\* lines 956-988: the loop test, the safety break and the request
Poll(i) ==
  /\ air[i].pc = "loop"
  /\ UNCHANGED nonAirVars
  /\ air' = [air EXCEPT ![i] =
       IF ~air[i].mightHaveMore
         THEN [@ EXCEPT !.pc = "finish"]
         ELSE IF ReachedLimit(@.apiCallCount + 1)
           THEN [@ EXCEPT !.apiCallCount = @ + 1, !.mightHaveMore = FALSE,
                          !.pc = "finish"]
           ELSE [@ EXCEPT !.apiCallCount = @ + 1, !.pc = "fetching",
                          !.requests = @ + 1,
                          !.reqCursor = air[i].currentCursor]]
  /\ UNCHANGED airDb

\* lines 998-1137 and 1165-1184: the response of the request
Response(i, r) ==
  /\ air[i].pc = "fetching"
  /\ UNCHANGED nonAirVars
  /\ air' = [air EXCEPT ![i] =
       IF r.kind # "ok"
         THEN [@ EXCEPT !.mightHaveMore = FALSE, !.pc = "finish",
                        !.respCursor = NullCursor, !.wrote = NullCursor,
                        !.respPayloads = {}, !.allMore = FALSE]
         ELSE LET isNew == IsTruthyNumber(r.cursor) /\ r.cursor # air[i].currentCursor
                  got == [@ EXCEPT !.allPayloads = @ \cup r.payloads,
                                   !.wrote = NullCursor,
                                   !.respPayloads = r.payloads,
                                   !.respCursor = IF isNew THEN r.cursor ELSE NullCursor,
                                   !.allMore = @ /\ isNew /\ r.mightHaveMore]
              IN IF isNew
                   THEN [got EXCEPT !.mightHaveMore = r.mightHaveMore,
                                    !.currentCursor = r.cursor,
                                    !.pc = "persisting"]
                   ELSE [got EXCEPT !.mightHaveMore = FALSE, !.pc = "loop"]]
  /\ UNCHANGED airDb

\* a loop that goes on without writing the new cursor
PersistCursorSkipped(i, dbOk) ==
  /\ air[i].pc = "persisting"
  /\ UNCHANGED nonAirVars
  /\ air' = [air EXCEPT ![i].pc = IF dbOk THEN "loop" ELSE "finish",
                        ![i].mightHaveMore = IF dbOk THEN @ ELSE FALSE]
  /\ UNCHANGED airDb

\* lines 1139-1164: the new cursor is written to the database, or the loop ends
PersistCursor(i, dbOk) ==
  /\ air[i].pc = "persisting"
  /\ UNCHANGED nonAirVars
  /\ IF dbOk
       THEN /\ airDb' = air[i].currentCursor
            /\ air' = [air EXCEPT ![i].localCursor = air[i].currentCursor,
                                  ![i].wrote = air[i].currentCursor,
                                  ![i].pc = "loop"]
       ELSE /\ air' = [air EXCEPT ![i].mightHaveMore = FALSE, ![i].pc = "finish"]
            /\ UNCHANGED airDb

\* lines 1188-1252: the input is returned when payloads were collected
Finish(i) ==
  /\ air[i].pc = "finish"
  /\ UNCHANGED nonAirVars
  /\ air' = [air EXCEPT ![i].pc = "done",
                        ![i].result = IF air[i].allPayloads # {} THEN "input"
                                                                 ELSE "undefined"]
  /\ UNCHANGED airDb

AirtableInit ==
  /\ airDb = NullCursor
  /\ air = [i \in Invocations |-> AirIdle]

\* one invocation at a time, each starting from what the previous one stored
AirtableNext ==
  \/ \E configOk \in BOOLEAN : Invoke("i1", configOk)
  \/ \E dbOk \in BOOLEAN : InitCursor("i1", dbOk)
  \/ \E ok \in BOOLEAN : GetToken("i1", ok)
  \/ Poll("i1")
  \/ \E r \in Responses : Response("i1", r)
  \/ \E dbOk \in BOOLEAN : PersistCursor("i1", dbOk)
  \/ Finish("i1")

\* the payloads Airtable holds for the webhook, in the order of their cursors
AirtablePayloads == <<"p1", "p2">>

\* GET /payloads?cursor=c as Airtable answers the request of lines 961-997:
\* the payload at the cursor and the cursor that follows it
AirtableAnswer(c) ==
  LET from == IF IsTruthyNumber(c) THEN c.n ELSE 1 IN
    IF from <= Len(AirtablePayloads)
      THEN [kind |-> "ok", cursor |-> NumberCursor(from + 1),
            mightHaveMore |-> from < Len(AirtablePayloads),
            payloads |-> {AirtablePayloads[from]}]
      ELSE [kind |-> "ok", cursor |-> NumberCursor(from), mightHaveMore |-> FALSE,
            payloads |-> {}]

\* the response Airtable gives to the request an invocation has issued
AirtableResponds(i) == Response(i, AirtableAnswer(air[i].reqCursor))

\* two invocations for the same webhook, their steps interleaved; the
\* database, the token and Airtable do not fail
ConcurrentNext ==
  \/ \E i \in Invocations : Invoke(i, TRUE)
  \/ \E i \in Invocations : InitCursor(i, TRUE)
  \/ \E i \in Invocations : GetToken(i, TRUE)
  \/ \E i \in Invocations : Poll(i)
  \/ \E i \in Invocations : AirtableResponds(i)
  \/ \E i \in Invocations : PersistCursor(i, TRUE)
  \/ \E i \in Invocations : Finish(i)

(***************************************************************************)
(* ---------------- Strings, as sequences of characters ------------------ *)
(***************************************************************************)
\* s.startsWith(prefix)
StartsWith(s, prefix) ==
  Len(s) >= Len(prefix) /\ SubSeq(s, 1, Len(prefix)) = prefix

\* s.substring(from)
Substring(s, from) == SubSeq(s, from + 1, Len(s))

\* s.split(sep)[0]
SplitFirst(s, sep) ==
  IF \E i \in 1 .. Len(s) : s[i] = sep
    THEN SubSeq(s, 1, (CHOOSE i \in 1 .. Len(s) :
                         s[i] = sep /\ \A j \in 1 .. i - 1 : s[j] # sep) - 1)
    ELSE s

RECURSIVE TrimStart(_)
TrimStart(s) == IF s # <<>> /\ Head(s) = " " THEN TrimStart(Tail(s)) ELSE s

RECURSIVE TrimEnd(_)
TrimEnd(s) ==
  IF s # <<>> /\ s[Len(s)] = " " THEN TrimEnd(SubSeq(s, 1, Len(s) - 1)) ELSE s

\* s.trim()
Trim(s) == TrimEnd(TrimStart(s))

DecimalDigits == <<"0", "1", "2", "3", "4", "5", "6", "7", "8", "9">>
HexDigits == DecimalDigits \o <<"a", "b", "c", "d", "e", "f">>

IsDigit(c) == \E i \in 1 .. Len(DecimalDigits) : DecimalDigits[i] = c
DigitValue(c) == (CHOOSE i \in 1 .. Len(DecimalDigits) : DecimalDigits[i] = c) - 1

\* the digits of s from position i on, read in base 10 after the value acc
RECURSIVE ParseDigits(_, _, _)
ParseDigits(s, i, acc) ==
  IF i <= Len(s) /\ IsDigit(s[i])
    THEN ParseDigits(s, i + 1, 10 * acc + DigitValue(s[i]))
    ELSE acc

NaN == [nan |-> TRUE, n |-> 0]
Number(n) == [nan |-> FALSE, n |-> n]

\* Number.parseInt(s): leading blanks and a sign are skipped, the digits that
\* follow are read and the rest is ignored; NaN when no digit follows
parseInt(s) ==
  LET t == TrimStart(s)
      signed == t # <<>> /\ Head(t) \in {"+", "-"}
      d == IF signed THEN Tail(t) ELSE t
  IN IF d = <<>> \/ ~IsDigit(Head(d))
       THEN NaN
       ELSE Number((IF signed /\ Head(t) = "-" THEN -1 ELSE 1) * ParseDigits(d, 1, 0))

Abs(n) == IF n < 0 THEN -n ELSE n

\* the characters of the modelled strings and their codes
Alphabet == HexDigits \o <<"v", "k", "j", ":", "=", " ", "+", "-", "t", "u">>
CharCode(c) == CHOOSE i \in 1 .. Len(Alphabet) : Alphabet[i] = c

RECURSIVE Mix(_, _)
Mix(h, s) == IF s = <<>> THEN h ELSE Mix((31 * h + CharCode(Head(s))) % 256, Tail(s))

\* crypto.subtle.sign('HMAC', key, message) in hex: a keyed digest of one
\* byte stands for HMAC-SHA256
HmacHex(key, message) ==
  LET h == Mix(Mix(Mix(7, key), <<":">>), message)
  IN <<HexDigits[(h \div 16) + 1], HexDigits[(h % 16) + 1]>>

\* the constant-time comparison of lines 126-135
ConstantTimeEqual(a, b) ==
  IF Len(a) # Len(b) THEN FALSE ELSE \A i \in 1 .. Len(a) : a[i] = b[i]

(***************************************************************************)
(* ------------------ validateSlackSignature (utils.ts) ------------------ *)
(***************************************************************************)
\* the replay window of line 99, in seconds
SlackWindow == 300

nonVerifyVars == <<collabVars, airVars, debugVars, sessionVars, restVars>>

SlackSecrets == {<<>>, <<"k">>, <<"j">>}
SlackBodies == {<<>>, <<"b">>}
SlackTimestamps ==
  {<<>>, <<"0">>, <<"3", "0", "0">>, <<"3", "0", "1">>, <<"a">>, <<"3", "a">>}
\* Math.floor(Date.now() / 1000)
SlackNows == {0, 1, 601}

\* the signature Slack computes for a request
SlackSign(secret, timestamp, body) ==
  <<"v", "0", "=">> \o HmacHex(secret, <<"v", "0", ":">> \o timestamp \o <<":">> \o body)

\* the X-Slack-Signature values tried: none, one signed with any of the
\* secrets for any timestamp and body, or such a one under another version
SlackSignatures ==
  {<<>>}
  \cup {SlackSign(k, ts, b) : k \in SlackSecrets, ts \in SlackTimestamps, b \in SlackBodies}
  \cup {<<"v", "1", "=">> \o HmacHex(<<"k">>, <<"v", "0", ":", "0", ":", "b">>)}

\* Math.abs(currentTime - parsed) > 300, line 99: false for NaN
TooOld(currentTime, parsed) ==
  ~parsed.nan /\ Abs(currentTime - parsed.n) > SlackWindow

\* lines 84-140; signThrows: crypto.subtle rejects, the catch of line 136
validateSlackSignature(signingSecret, signature, timestamp, body, currentTime, signThrows) ==
  IF signingSecret = <<>> \/ signature = <<>> \/ timestamp = <<>> \/ body = <<>>
    THEN FALSE
  ELSE IF TooOld(currentTime, parseInt(timestamp))
    THEN FALSE
  ELSE IF signThrows
    THEN FALSE
  ELSE ConstantTimeEqual(SlackSign(signingSecret, timestamp, body), signature)

\* no call of validateSlackSignature is being looked at
SlackIdle ==
  [called |-> FALSE, signingSecret |-> <<>>, signature |-> <<>>,
   timestamp |-> <<>>, body |-> <<>>, now |-> 0, signThrows |-> FALSE,
   result |-> FALSE]

SlackInit == slack = SlackIdle

\* a Slack request arrives and its signature is validated
ValidateSlack(signingSecret, signature, timestamp, body, currentTime, signThrows) ==
  /\ ~slack.called
  /\ slack' = [called |-> TRUE, signingSecret |-> signingSecret,
               signature |-> signature, timestamp |-> timestamp, body |-> body,
               now |-> currentTime, signThrows |-> signThrows,
               result |-> validateSlackSignature(signingSecret, signature, timestamp,
                                                 body, currentTime, signThrows)]
  /\ UNCHANGED <<generic, whatsapp>>
  /\ UNCHANGED nonVerifyVars

\* the request has been answered
SlackAnswered ==
  /\ slack.called
  /\ slack' = SlackIdle
  /\ UNCHANGED <<generic, whatsapp>>
  /\ UNCHANGED nonVerifyVars

SlackNext ==
  \/ /\ ~slack.called
     /\ \E k \in SlackSecrets, sig \in SlackSignatures, ts \in SlackTimestamps,
           b \in SlackBodies, now \in SlackNows, signThrows \in BOOLEAN :
          ValidateSlack(k, sig, ts, b, now, signThrows)
  \/ SlackAnswered

(***************************************************************************)
(* ------------- verifyProviderWebhook, case 'generic' (utils.ts) -------- *)
(***************************************************************************)
\* a header or configuration value: null or undefined, or a string
Null == [has |-> FALSE, v |-> <<>>]
Str(s) == [has |-> TRUE, v |-> s]
\* the value is truthy: a non-empty string
Truthy(x) == x.has /\ x.v # <<>>

\* a response, or null
NullResponse == [isNull |-> TRUE, status |-> 0, body |-> ""]
NextResponse(body, status) == [isNull |-> FALSE, status |-> status, body |-> body]

BearerPrefix == <<"B", "e", "a", "r", "e", "r", " ">>
UnknownIp == <<"u", "n", "k", "n", "o", "w", "n">>

GenericTokens == {Null, Str(<<>>), Str(<<"t">>)}
\* providerConfig.secretHeaderName: "" when it is not set
SecretHeaderNames == {"", "x-secret"}
\* providerConfig.allowedIps: undefined, an array, or a value that is no array
AllowedIpsValues ==
  {[kind |-> "undefined", items |-> <<>>],
   [kind |-> "array", items |-> <<>>],
   [kind |-> "array", items |-> << <<"1">> >>],
   [kind |-> "string", items |-> << <<"1">> >>]}
ProviderConfigs ==
  [requireAuth : BOOLEAN, token : GenericTokens,
   secretHeaderName : SecretHeaderNames, allowedIps : AllowedIpsValues]

HeaderNames == {"authorization", "x-secret", "x-forwarded-for", "x-real-ip"}
RequestHeaders ==
  {[n \in HeaderNames |->
      CASE n = "authorization" -> a
        [] n = "x-secret" -> x
        [] n = "x-forwarded-for" -> f
        [] OTHER -> r] :
     a \in {Null, Str(BearerPrefix \o <<"t">>), Str(BearerPrefix \o <<"u">>),
            Str(<<"t">>), Str(BearerPrefix)},
     x \in {Null, Str(<<"t">>), Str(<<"u">>)},
     f \in {Null, Str(<<>>), Str(<<"1">>), Str(<<"2">>), Str(<<" ", "1", ",", "2">>)},
     r \in {Null, Str(<<"1">>), Str(<<"2">>)}}

\* request.headers.get(name)
HeadersGet(headers, name) == IF name \in DOMAIN headers THEN headers[name] ELSE Null

\* lines 783-786: the first x-forwarded-for entry, else x-real-ip, else 'unknown'
ClientIp(headers) ==
  LET forwarded == HeadersGet(headers, "x-forwarded-for")
      first == IF forwarded.has THEN Str(Trim(SplitFirst(forwarded.v, ",")))
                                ELSE Null
      real == HeadersGet(headers, "x-real-ip")
  IN IF Truthy(first) THEN first.v
     ELSE IF Truthy(real) THEN real.v
     ELSE UnknownIp

\* authHeader?.startsWith('Bearer ') ? authHeader.substring(7) : null, line 759
ProvidedToken(authHeader) ==
  IF authHeader.has /\ StartsWith(authHeader.v, BearerPrefix)
    THEN Str(Substring(authHeader.v, Len(BearerPrefix)))
    ELSE Null

\* lines 778-797: the IP restriction
IpRestriction(providerConfig, headers) ==
  IF providerConfig.allowedIps.kind = "array" /\ Len(providerConfig.allowedIps.items) > 0
    THEN LET clientIp == ClientIp(headers) IN
         IF clientIp = UnknownIp
            \/ ~\E i \in 1 .. Len(providerConfig.allowedIps.items) :
                  providerConfig.allowedIps.items[i] = clientIp
           THEN NextResponse("Forbidden - IP not allowed", 403)
           ELSE NullResponse
    ELSE NullResponse

\* lines 694-811, the cases 'github' and 'generic'
verifyProviderWebhook(provider, providerConfig, headers) ==
  IF provider # "generic" THEN NullResponse
  ELSE
    LET authHeader == HeadersGet(headers, "authorization")
        byBearer == ProvidedToken(authHeader) = providerConfig.token
        byHeader == /\ providerConfig.secretHeaderName # ""
                    /\ HeadersGet(headers, providerConfig.secretHeaderName)
                         = providerConfig.token
    IN IF providerConfig.requireAuth /\ Truthy(providerConfig.token)
            /\ ~byBearer /\ ~byHeader
         THEN NextResponse("Unauthorized", 401)
         ELSE IpRestriction(providerConfig, headers)

\* no call of verifyProviderWebhook is being looked at
GenericIdle ==
  [called |-> FALSE, provider |-> "github",
   providerConfig |-> [requireAuth |-> FALSE, token |-> Null,
                       secretHeaderName |-> "",
                       allowedIps |-> [kind |-> "undefined", items |-> <<>>]],
   headers |-> [n \in HeaderNames |-> Null],
   result |-> NullResponse]

GenericInit == generic = GenericIdle

\* a request for a webhook arrives and is verified
VerifyProviderWebhook(provider, providerConfig, headers) ==
  /\ ~generic.called
  /\ generic' = [called |-> TRUE, provider |-> provider,
                 providerConfig |-> providerConfig, headers |-> headers,
                 result |-> verifyProviderWebhook(provider, providerConfig, headers)]
  /\ UNCHANGED <<slack, whatsapp>>
  /\ UNCHANGED nonVerifyVars

\* the request has been answered
GenericAnswered ==
  /\ generic.called
  /\ generic' = GenericIdle
  /\ UNCHANGED <<slack, whatsapp>>
  /\ UNCHANGED nonVerifyVars

GenericNext ==
  \/ /\ ~generic.called
     /\ \E provider \in {"generic", "github"}, providerConfig \in ProviderConfigs,
           headers \in RequestHeaders :
          VerifyProviderWebhook(provider, providerConfig, headers)
  \/ GenericAnswered

(***************************************************************************)
(* --------------- handleWhatsAppVerification (utils.ts) ----------------- *)
(***************************************************************************)
MaxWebhooks == 2

\* a query parameter or a configuration value: null or undefined, or a string
Absent == [has |-> FALSE, v |-> ""]
Given(s) == [has |-> TRUE, v |-> s]
\* the value is truthy
Present(x) == x.has /\ x.v # ""

WhatsAppModes == {Absent, Given(""), Given("subscribe"), Given("unsubscribe")}
WhatsAppTokens == {Absent, Given(""), Given("t"), Given("u")}
WhatsAppChallenges == {Absent, Given(""), Given("c")}
\* the rows of the webhook table
WebhookRows ==
  [provider : {"whatsapp", "slack"}, isActive : BOOLEAN,
   verificationToken : {Absent, Given(""), Given("t")}]
WebhookTables == UNION {[1 .. n -> WebhookRows] : n \in 0 .. MaxWebhooks}

\* the query of lines 30-33
ActiveWhatsAppWebhooks(table) ==
  SelectSeq(table, LAMBDA wh : wh.provider = "whatsapp" /\ wh.isActive)

\* a token that matches whatever the webhook holds
TokenMatchesAny(token, verificationToken) == TRUE

\* token === verificationToken, line 45
TokenMatches(token, verificationToken) == token = verificationToken

\* the loop of lines 36-56 from webhook i on
RECURSIVE MatchWebhooks(_, _, _, _)
MatchWebhooks(webhooks, i, token, challenge) ==
  IF i > Len(webhooks)
    THEN NextResponse("Verification failed", 403)
  ELSE IF ~Present(webhooks[i].verificationToken)
    THEN MatchWebhooks(webhooks, i + 1, token, challenge)
  ELSE IF TokenMatches(token.v, webhooks[i].verificationToken.v)
    THEN NextResponse(challenge.v, 200)
  ELSE MatchWebhooks(webhooks, i + 1, token, challenge)

\* lines 13-62
handleWhatsAppVerification(mode, token, challenge, table) ==
  IF Present(mode) /\ Present(token) /\ Present(challenge)
    THEN IF mode.v # "subscribe"
           THEN NextResponse("Invalid mode", 400)
           ELSE MatchWebhooks(ActiveWhatsAppWebhooks(table), 1, token, challenge)
    ELSE NullResponse

\* no call of handleWhatsAppVerification is being looked at
WhatsAppIdle ==
  [called |-> FALSE, mode |-> Absent, token |-> Absent, challenge |-> Absent,
   table |-> <<>>, result |-> NullResponse]

WhatsAppInit == whatsapp = WhatsAppIdle

\* a GET request arrives and is examined with the webhook table as it is
HandleWhatsAppVerification(mode, token, challenge, table) ==
  /\ ~whatsapp.called
  /\ whatsapp' = [called |-> TRUE, mode |-> mode, token |-> token,
                  challenge |-> challenge, table |-> table,
                  result |-> handleWhatsAppVerification(mode, token, challenge, table)]
  /\ UNCHANGED <<slack, generic>>
  /\ UNCHANGED nonVerifyVars

\* the request has been answered
WhatsAppAnswered ==
  /\ whatsapp.called
  /\ whatsapp' = WhatsAppIdle
  /\ UNCHANGED <<slack, generic>>
  /\ UNCHANGED nonVerifyVars

WhatsAppNext ==
  \/ /\ ~whatsapp.called
     /\ \E mode \in WhatsAppModes, token \in WhatsAppTokens,
           challenge \in WhatsAppChallenges, table \in WebhookTables :
          HandleWhatsAppVerification(mode, token, challenge, table)
  \/ WhatsAppAnswered

(***************************************************************************)
(* ---------------- handleStepDebug (workflow-execution hook) ------------ *)
(***************************************************************************)
nonDebugVars == <<collabVars, airVars, verifyVars, sessionVars, restVars>>

NoExecutor == "null"
NoContext == "null"
Contexts == {"ctx1", "ctx2"}
BlockLists == {<<>>, <<"a">>, <<"b">>, <<"a", "b">>}

\* result.metadata.pendingBlocks: undefined, or a list
Undefined == [defined |-> FALSE, v |-> <<>>]
Defined(v) == [defined |-> TRUE, v |-> v]

\* the results of Executor.execute and Executor.continueExecution
ExecutionResults ==
  [isDebugSession : BOOLEAN,
   pendingBlocks : {Undefined} \cup {Defined(l) : l \in BlockLists},
   context : {NoContext} \cup Contexts]

NoResult == [isDebugSession |-> FALSE, pendingBlocks |-> Undefined, context |-> NoContext]

\* no handleStepDebug is running and none has run since the state was set up
\* the state of the execution store
DebugState ==
  [executor |-> executor, debugContext |-> debugContext,
   pendingBlocks |-> pendingBlocks, isExecuting |-> isExecuting,
   isDebugging |-> isDebugging]

\* the state of the execution store before any run
NoDebugState ==
  [executor |-> NoExecutor, debugContext |-> NoContext, pendingBlocks |-> <<>>,
   isExecuting |-> FALSE, isDebugging |-> FALSE]

\* no handleStepDebug is running and none has run since the state was set up;
\* of a handleStepDebug: the state it started in, the calls of
\* continueExecution it made with their arguments, the result it got
StepIdle ==
  [pc |-> "idle", outcome |-> "none", calls |-> 0, before |-> NoDebugState,
   args |-> [blocks |-> <<>>, context |-> NoContext], result |-> NoResult,
   \* of a handleResumeDebug: its iterationCount, and whether a result has
   \* ended the resume
   iterationCount |-> 0, ended |-> FALSE]

\* validateDebugState, lines 71-84
validateDebugState(s) ==
  ~(s.executor = NoExecutor \/ s.debugContext = NoContext \/ Len(s.pendingBlocks) = 0)

\* resetDebugState, lines 89-109
resetDebugState(s) ==
  [s EXCEPT !.isExecuting = FALSE, !.isDebugging = FALSE, !.debugContext = NoContext,
            !.executor = NoExecutor, !.pendingBlocks = <<>>]

\* isDebugSessionComplete, lines 114-120
isDebugSessionComplete(result) ==
  \/ ~result.isDebugSession
  \/ ~result.pendingBlocks.defined
  \/ Len(result.pendingBlocks.v) = 0

\* a continuation that takes the context of the result whatever it is
handleDebugSessionContinuationAlways(s, result) ==
  [s EXCEPT !.debugContext = result.context,
            !.pendingBlocks = IF result.pendingBlocks.defined
                                THEN result.pendingBlocks.v ELSE @]

\* handleDebugSessionContinuation, lines 143-157
handleDebugSessionContinuation(s, result) ==
  [s EXCEPT !.debugContext = IF result.context # NoContext THEN result.context ELSE @,
            !.pendingBlocks = IF result.pendingBlocks.defined
                                THEN result.pendingBlocks.v ELSE @]

\* the execution store takes the state s
SetDebugState(s) ==
  /\ executor' = s.executor
  /\ debugContext' = s.debugContext
  /\ pendingBlocks' = s.pendingBlocks
  /\ isExecuting' = s.isExecuting
  /\ isDebugging' = s.isDebugging

\* a run in debug mode that stopped at its first blocks: lines 259-265, 687
\* and 463-469
RunDebug(result) ==
  /\ step.pc = "idle"
  /\ result.isDebugSession
  /\ SetDebugState([executor |-> "executor",
                    debugContext |-> result.context,
                    pendingBlocks |-> IF result.pendingBlocks.defined
                                        THEN result.pendingBlocks.v ELSE pendingBlocks,
                    isExecuting |-> TRUE, isDebugging |-> TRUE])
  /\ step' = StepIdle
  /\ UNCHANGED nonDebugVars

\* handleStepDebug up to its await, lines 756-773
StepDebug ==
  /\ step.pc = "idle"
  /\ IF validateDebugState(DebugState)
       THEN /\ step' = [StepIdle EXCEPT !.pc = "continuing", !.calls = 1,
                                        !.before = DebugState,
                                        !.args = [blocks |-> pendingBlocks,
                                                  context |-> debugContext]]
            /\ UNCHANGED <<executor, debugContext, pendingBlocks, isExecuting,
                           isDebugging>>
       ELSE /\ step' = [StepIdle EXCEPT !.outcome = "invalid", !.before = DebugState]
            /\ SetDebugState(resetDebugState(DebugState))
  /\ UNCHANGED nonDebugVars

\* continueExecution resolved, lines 774-780: the session is complete and its
\* logs are being persisted, or it continues
ContinueExecutionReturns(result) ==
  /\ step.pc = "continuing"
  /\ IF isDebugSessionComplete(result)
       THEN /\ step' = [step EXCEPT !.pc = "persisting", !.outcome = "complete",
                                    !.result = result]
            /\ UNCHANGED <<executor, debugContext, pendingBlocks, isExecuting,
                           isDebugging>>
       ELSE /\ step' = [step EXCEPT !.pc = "idle", !.outcome = "continued",
                                    !.result = result]
            /\ SetDebugState(handleDebugSessionContinuation(DebugState, result))
  /\ UNCHANGED nonDebugVars

\* continueExecution rejected, lines 781-783 and 162-181
ContinueExecutionThrows ==
  /\ step.pc = "continuing"
  /\ step' = [step EXCEPT !.pc = "persisting", !.outcome = "error"]
  /\ UNCHANGED <<executor, debugContext, pendingBlocks, isExecuting, isDebugging>>
  /\ UNCHANGED nonDebugVars

\* persistLogs returned (it catches its errors, lines 185-243): lines 133-136
\* and 177-180
LogsPersisted ==
  /\ step.pc = "persisting"
  /\ step' = [step EXCEPT !.pc = "idle"]
  /\ SetDebugState(resetDebugState(DebugState))
  /\ UNCHANGED nonDebugVars

DebugInit ==
  /\ executor = NoExecutor
  /\ debugContext = NoContext
  /\ pendingBlocks = <<>>
  /\ isExecuting = FALSE
  /\ isDebugging = FALSE
  /\ step = StepIdle

DebugNext ==
  \/ \E result \in ExecutionResults : RunDebug(result)
  \/ StepDebug
  \/ \E result \in ExecutionResults : ContinueExecutionReturns(result)
  \/ ContinueExecutionThrows
  \/ LogsPersisted

(***************************************************************************)
(* handleResumeDebug.  Its locals currentPendingBlocks and currentContext  *)
(* are step.args, the arguments of its next call of continueExecution.     *)
(***************************************************************************)
\* the limit of line 830
maxIterations == 500

\* a loop that runs one iteration more than the limit of line 830
WithinLimitLate(iterationCount) == iterationCount < maxIterations + 1

\* iterationCount < maxIterations, line 832
WithinLimit(iterationCount) == iterationCount < maxIterations

\* a result after which the resume has nothing left to execute
EndsResume(result) ==
  \/ result.context = NoContext
  \/ ~result.pendingBlocks.defined
  \/ Len(result.pendingBlocks.v) = 0
  \/ ~result.isDebugSession

\* handleResumeDebug up to its loop, lines 799-830
ResumeDebug ==
  /\ step.pc = "idle"
  /\ IF validateDebugState(DebugState)
       THEN /\ step' = [StepIdle EXCEPT !.pc = "looping", !.before = DebugState,
                                        !.args = [blocks |-> pendingBlocks,
                                                  context |-> debugContext]]
            /\ UNCHANGED <<executor, debugContext, pendingBlocks, isExecuting,
                           isDebugging>>
       ELSE /\ step' = [StepIdle EXCEPT !.outcome = "resume invalid",
                                        !.before = DebugState]
            /\ SetDebugState(resetDebugState(DebugState))
  /\ UNCHANGED nonDebugVars

\* the loop test of line 832 and the call of line 837, or the end of the loop
\* and lines 870-880, where the logs are being persisted
ResumeLoop ==
  /\ step.pc = "looping"
  /\ step' = IF Len(step.args.blocks) > 0 /\ WithinLimit(step.iterationCount)
               THEN [step EXCEPT !.pc = "resuming", !.calls = @ + 1]
               ELSE [step EXCEPT !.pc = "persisting", !.outcome = "resumed"]
  /\ UNCHANGED <<executor, debugContext, pendingBlocks, isExecuting, isDebugging>>
  /\ UNCHANGED nonDebugVars

\* continueExecution resolved, lines 839-867: the locals take the context and
\* the pending blocks of the result, or the loop is left
ResumeExecutionReturns(result) ==
  /\ step.pc = "resuming"
  /\ step' =
       LET got == [step EXCEPT !.ended = EndsResume(result)]
           left == [got EXCEPT !.pc = "persisting", !.outcome = "resumed"]
       IN IF result.context = NoContext
            THEN left
            ELSE IF ~result.pendingBlocks.defined
              THEN [left EXCEPT !.args.context = result.context]
              ELSE IF ~result.isDebugSession
                THEN [left EXCEPT !.args = [blocks |-> result.pendingBlocks.v,
                                            context |-> result.context]]
                ELSE [got EXCEPT !.args = [blocks |-> result.pendingBlocks.v,
                                           context |-> result.context],
                                 !.iterationCount = @ + 1,
                                 !.pc = "looping"]
  /\ UNCHANGED <<executor, debugContext, pendingBlocks, isExecuting, isDebugging>>
  /\ UNCHANGED nonDebugVars

\* continueExecution rejected, lines 881-883 and 162-181
ResumeExecutionThrows ==
  /\ step.pc = "resuming"
  /\ step' = [step EXCEPT !.pc = "persisting", !.outcome = "resume error"]
  /\ UNCHANGED <<executor, debugContext, pendingBlocks, isExecuting, isDebugging>>
  /\ UNCHANGED nonDebugVars

ResumeNext ==
  \/ \E result \in ExecutionResults : RunDebug(result)
  \/ ResumeDebug
  \/ ResumeLoop
  \/ \E result \in ExecutionResults : ResumeExecutionReturns(result)
  \/ ResumeExecutionThrows
  \/ LogsPersisted

\* an awaited continueExecution settles, and so does persistLogs
ResumeFairness ==
  /\ WF_vars(ResumeLoop)
  /\ WF_vars((\E result \in ExecutionResults : ResumeExecutionReturns(result))
               \/ ResumeExecutionThrows)
  /\ WF_vars(LogsPersisted)

(***************************************************************************)
(* ---------------- SessionRequestBlocker (session-blocker.ts) ----------- *)
(***************************************************************************)
MaxClock == 45000
MaxFetches == 2
MaxSessionCalls == 2

nonSessionVars == <<collabVars, airVars, verifyVars, debugVars, restVars>>

\* line 6
CACHE_DURATION == 30000

Callers == {"c1", "c2", "c3"}
\* the body of a session response: JSON null, or a session
Sessions == {"null", "s1", "s2"}
\* the time that passes between two events, in milliseconds
Advances == {15000, 30000}
NoFetch == 0

\* a fetch of /api/auth/get-session not yet settled; at is the time at which
\* it settled, kept for the fetch that settled last
PendingFetch == [state |-> "pending", value |-> "null", at |-> 0]
\* the fetches that settle: resolved with a body, or rejected
Outcomes == [state : {"resolved"}, value : Sessions, at : {0}]
            \cup {[state |-> "rejected", value |-> "null", at |-> 0]}

\* the fetches in flight
InFlight == {f \in 1 .. Len(fetches) : fetches[f].state = "pending"}

CallerIdle ==
  [pc |-> "idle", n |-> 0, now |-> 0, awaits |-> NoFetch, result |-> "null",
   cached |-> FALSE]

\* this.lastResponse && (now - this.lastFetchTime) < this.CACHE_DURATION, line 19
CacheValid(now) == lastResponse # "null" /\ (now - lastFetchTime) < CACHE_DURATION

\* a blocker that never finds a pending request
NeverPending(p) == FALSE

\* if (this.pendingRequest), line 25
HasPendingRequest(p) == p # NoFetch

\* time passes
Tick(d) ==
  /\ clock + d <= MaxClock
  /\ clock' = clock + d
  /\ UNCHANGED <<pendingRequest, lastResponse, lastFetchTime, fetches, callers>>
  /\ UNCHANGED nonSessionVars

\* getSession up to its return or its await, lines 15-34
GetSession(c) ==
  /\ callers[c].pc \in {"idle", "returned", "rejected"}
  /\ callers[c].n < MaxSessionCalls
  /\ LET call == [CallerIdle EXCEPT !.n = callers[c].n + 1, !.now = clock] IN
       IF CacheValid(clock)
         THEN /\ callers' = [callers EXCEPT ![c] =
                   [call EXCEPT !.pc = "returned", !.result = lastResponse,
                                !.cached = TRUE]]
              /\ UNCHANGED <<pendingRequest, fetches>>
       ELSE IF HasPendingRequest(pendingRequest)
         THEN /\ callers' = [callers EXCEPT ![c] =
                   [call EXCEPT !.pc = "waiter", !.awaits = pendingRequest]]
              /\ UNCHANGED <<pendingRequest, fetches>>
       ELSE /\ Len(fetches) < MaxFetches
            /\ fetches' = Append(fetches, PendingFetch)
            /\ pendingRequest' = Len(fetches) + 1
            /\ callers' = [callers EXCEPT ![c] =
                 [call EXCEPT !.pc = "owner", !.awaits = Len(fetches) + 1]]
  /\ UNCHANGED <<lastResponse, lastFetchTime, clock>>
  /\ UNCHANGED nonSessionVars

\* the fetch f settles and the calls awaiting it continue, the one that made
\* it first: lines 35-41 for that one, line 27 for the others
FetchSettles(f, outcome) ==
  /\ f \in InFlight
  /\ fetches' = [g \in 1 .. Len(fetches) |->
                   IF g = f THEN [outcome EXCEPT !.at = clock]
                   ELSE [fetches[g] EXCEPT !.at = 0]]
  /\ LET owners == {c \in Callers : callers[c].pc = "owner" /\ callers[c].awaits = f}
         resolved == outcome.state = "resolved"
     IN /\ IF owners # {} /\ resolved
             THEN /\ lastResponse' = outcome.value
                  /\ lastFetchTime' = callers[CHOOSE c \in owners : TRUE].now
             ELSE UNCHANGED <<lastResponse, lastFetchTime>>
        /\ pendingRequest' = IF owners # {} THEN NoFetch ELSE pendingRequest
  /\ callers' = [c \in Callers |->
       IF callers[c].pc \in {"owner", "waiter"} /\ callers[c].awaits = f
         THEN [callers[c] EXCEPT !.pc = IF outcome.state = "resolved"
                                          THEN "returned" ELSE "rejected",
                                 !.result = outcome.value]
         ELSE callers[c]]
  /\ UNCHANGED clock
  /\ UNCHANGED nonSessionVars

SessionInit ==
  /\ pendingRequest = NoFetch
  /\ lastResponse = "null"
  /\ lastFetchTime = 0
  /\ clock = 0
  /\ fetches = <<>>
  /\ callers = [c \in Callers |-> CallerIdle]

SessionNext ==
  \/ \E d \in Advances : Tick(d)
  \/ \E c \in Callers : GetSession(c)
  \/ \E f \in 1 .. MaxFetches, outcome \in Outcomes : FetchSettles(f, outcome)

(***************************************************************************)
(* ------------- get-session throttle (api/auth/[...all]/route.ts) ------- *)
(***************************************************************************)
MaxGets == 2
MaxThrottleClock == 10000

nonThrottleVars == <<collabVars, airVars, verifyVars, debugVars, sessionVars,
                     enhanceVars, deployVars,
                     reloadVars>>

\* line 8
SESSION_CACHE_DURATION == 5000

GetIds == {"g1", "g2"}
\* a header that the request does not carry: headers.get returns null
NoHeader == "<null>"
ForwardedFors == {NoHeader, "", "10.0.0.1"}
UserAgents == {NoHeader, "curl"}
ClientIds == {"10.0.0.1", "curl", "anonymous"}
\* the time that passes between two events, in milliseconds
ThrottleAdvances == {2500}

\* the bodies the auth handler replies with: JSON texts, and one that is not
BodyTexts == {"null", "{ \"user\": 1 }", "<html>"}
Statuses == {200, 401}
HandlerResponses == [status : Statuses, body : BodyTexts]

IsJson(text) == text # "<html>"
\* response.json(): the value the text denotes
JsonParse(text) == IF text = "null" THEN "NULL" ELSE "USER1"
\* JSON.stringify(value)
JsonStringify(value) == IF value = "NULL" THEN "null" ELSE "{\"user\":1}"

\* a || b of JavaScript on header values: null and '' are falsy
OrElse(a, b) == IF a \in {NoHeader, ""} THEN b ELSE a

\* lines 17-19
ClientIdOf(forwardedFor, userAgent) ==
  OrElse(forwardedFor, OrElse(userAgent, "anonymous"))

NoEntry == [present |-> FALSE, response |-> "NULL", timestamp |-> 0]
NoReply == [status |-> 0, body |-> ""]
GetIdle ==
  [pc |-> "idle", getSession |-> FALSE, clientId |-> "anonymous", now |-> 0,
   throttled |-> FALSE, reply |-> NoReply]
NotPopulated == [seen |-> FALSE, status |-> 0, data |-> "NULL", at |-> 0]

\* cached && (now - cached.timestamp) < SESSION_CACHE_DURATION, line 24
ThrottleHit(cached, now) ==
  cached.present /\ (now - cached.timestamp) < SESSION_CACHE_DURATION

\* the reply of lines 26-32
ThrottledReply(cached) == [status |-> 200, body |-> JsonStringify(cached.response)]

\* time passes; a timer runs when it is due, before time passes further
ThrottleTick(d) ==
  /\ throttleClock + d <= MaxThrottleClock
  /\ \A t \in throttleTimers : throttleClock + d <= t.due
  /\ throttleClock' = throttleClock + d
  /\ UNCHANGED <<sessionThrottle, throttleTimers, gets, getCount, populated>>
  /\ UNCHANGED nonThrottleVars

\* GET up to its first return or its await of the auth handler, lines 12-36
\* and 59-66
Get(g, getSession, forwardedFor, userAgent) ==
  /\ gets[g].pc \in {"idle", "done"}
  /\ getCount < MaxGets
  /\ getCount' = getCount + 1
  /\ LET clientId == ClientIdOf(forwardedFor, userAgent)
         cached == sessionThrottle[clientId]
         now == throttleClock
         get == [GetIdle EXCEPT !.getSession = getSession, !.clientId = clientId,
                                !.now = now]
     IN gets' = [gets EXCEPT ![g] =
          IF getSession /\ ThrottleHit(cached, now)
            THEN [get EXCEPT !.pc = "done", !.throttled = TRUE,
                             !.reply = ThrottledReply(cached)]
            ELSE [get EXCEPT !.pc = "handler"]]
  /\ UNCHANGED <<sessionThrottle, throttleTimers, throttleClock, populated>>
  /\ UNCHANGED nonThrottleVars

\* originalHandlers.GET resolves with a response and the GET returns it,
\* lines 36-56 for a get-session request (the body is read in the same turn)
\* and line 66 for any other
HandlerReturns(g, response) ==
  /\ gets[g].pc = "handler"
  /\ gets' = [gets EXCEPT ![g] = [@ EXCEPT !.pc = "done", !.reply = response]]
  /\ IF gets[g].getSession /\ IsJson(response.body)
       THEN /\ sessionThrottle' = [sessionThrottle EXCEPT ![gets[g].clientId] =
                 [present |-> TRUE, response |-> JsonParse(response.body),
                  timestamp |-> gets[g].now]]
            /\ throttleTimers' = throttleTimers \cup
                 {[clientId |-> gets[g].clientId,
                   due |-> throttleClock + SESSION_CACHE_DURATION]}
            /\ populated' = [populated EXCEPT ![gets[g].clientId] =
                 [seen |-> TRUE, status |-> response.status,
                  data |-> JsonParse(response.body), at |-> throttleClock]]
       ELSE UNCHANGED <<sessionThrottle, throttleTimers, populated>>
  /\ UNCHANGED <<throttleClock, getCount>>
  /\ UNCHANGED nonThrottleVars

\* the callback of lines 48-50 runs
ThrottleCleanup(t) ==
  /\ t \in throttleTimers
  /\ t.due <= throttleClock
  /\ throttleTimers' = throttleTimers \ {t}
  /\ sessionThrottle' = [sessionThrottle EXCEPT ![t.clientId] = NoEntry]
  /\ UNCHANGED <<throttleClock, gets, getCount, populated>>
  /\ UNCHANGED nonThrottleVars

ThrottleInit ==
  /\ sessionThrottle = [k \in ClientIds |-> NoEntry]
  /\ throttleTimers = {}
  /\ throttleClock = 0
  /\ gets = [g \in GetIds |-> GetIdle]
  /\ getCount = 0
  /\ populated = [k \in ClientIds |-> NotPopulated]

ThrottleNext ==
  \/ \E d \in ThrottleAdvances : ThrottleTick(d)
  \/ \E g \in GetIds, getSession \in BOOLEAN, forwardedFor \in ForwardedFors,
        userAgent \in UserAgents : Get(g, getSession, forwardedFor, userAgent)
  \/ \E g \in GetIds, response \in HandlerResponses : HandlerReturns(g, response)
  \/ \E t \in throttleTimers : ThrottleCleanup(t)

(***************************************************************************)
(* ------- error enhancement (api/function/execute/route.ts) ------------- *)
(***************************************************************************)
MaxCodeLines == 3

nonEnhanceVars == <<collabVars, airVars, verifyVars, debugVars, sessionVars,
                    throttleVars, deployVars,
                     reloadVars>>

\* the keys of the request's params
ParamSets == {{}, {"a"}, {"a", "b"}, {"_context"}}
\* the user's code, as its lines; '' is the empty code
UserCodes ==
  {<<"">>} \cup {[i \in 1 .. k |-> "x"] : k \in 1 .. MaxCodeLines}
ErrorNames == {"Error", "TypeError", "SyntaxError"}
ErrorMessages == {"boom", "Unexpected token ')'", "Unexpected end of input",
                  "Invalid or unexpected token"}
\* a column of the stack line; 0 stands for a stack line without a column
Columns == {0, 7}
NoLine == 0

\* const executionParams = { ...params }; executionParams._context = undefined,
\* lines 453-454: Object.keys counts the key whose value is undefined
ExecutionParamKeys(params) == params \cup {"_context"}

\* the wrapper lines before the user code, lines 507-516, as their number of
\* lines: the two opening lines and, for a custom tool, a comment and one
\* declaration per key
WrapperLineCount(isCustomTool, params) ==
  IF isCustomTool THEN 2 + 1 + Cardinality(ExecutionParamKeys(params)) ELSE 2

\* line 518
UserCodeStartLine(isCustomTool, params) == WrapperLineCount(isCustomTool, params) + 1

\* the line of fullScript (lines 521-529) that holds line n of the user code:
\* V8 numbers the lines of the script from 1
ScriptLine(isCustomTool, params, n) == WrapperLineCount(isCustomTool, params) + n

\* error.message.includes(...) of lines 71-72
IsUnexpected(message) ==
  message \in {"Unexpected token ')'", "Unexpected end of input"}

\* the stack of an error raised at a line of the script: the frames above it
\* that are not of user-function.js, its own frame, and the frames of vm.js
Frame(file, line, column) == [file |-> file, line |-> line, column |-> column]
StackOf(scriptLine, column, inner) ==
  (IF inner THEN <<Frame("<anonymous>", 1, 1)>> ELSE <<>>)
    \o <<Frame("user-function.js", scriptLine, column), Frame("vm.js", 100, 5)>>

\* the first stack line that the patterns of lines 46-57 match
RECURSIVE FirstMatch(_)
FirstMatch(stack) ==
  IF stack = <<>> THEN Frame("", NoLine, 0)
  ELSE IF Head(stack).file = "user-function.js" THEN Head(stack)
  ELSE FirstMatch(Tail(stack))

\* lines 27-125, for the line and the column it reports
extractEnhancedError(error, userCodeStartLine, userCode) ==
  LET match == FirstMatch(error.stack)
      stackLine == match.line
      stackColumn == match.column
      adjustedLine == stackLine - userCodeStartLine + 1
      isWrapperSyntaxError ==
        /\ stackLine > userCodeStartLine
        /\ error.name = "SyntaxError"
        /\ IsUnexpected(error.message)
      lastUserLine == Len(userCode)
      none == [line |-> NoLine, column |-> 0]
  IN IF match.file = "" THEN none
     ELSE IF isWrapperSyntaxError /\ userCode # <<"">>
       THEN [line |-> lastUserLine, column |-> Len(userCode[lastUserLine])]
     ELSE IF adjustedLine > 0
       THEN [line |-> adjustedLine, column |-> stackColumn]
     ELSE IF stackLine <= userCodeStartLine
       THEN [line |-> stackLine, column |-> stackColumn]
     ELSE none

EnhanceIdle ==
  [called |-> FALSE, isCustomTool |-> FALSE, params |-> {}, code |-> <<"">>,
   n |-> 0, name |-> "Error", message |-> "boom", stackLine |-> 0,
   userCodeStartLine |-> 3, line |-> NoLine, column |-> 0]

\* POST for a script that raises an error at line n of the user code,
\* lines 435-598
Execute(isCustomTool, params, code, n, name, message, column, inner) ==
  /\ ~enhance.called
  /\ n \in 1 .. Len(code)
  /\ code[n] # ""
  /\ LET start == UserCodeStartLine(isCustomTool, params)
         scriptLine == ScriptLine(isCustomTool, params, n)
         error == [name |-> name, message |-> message,
                   stack |-> StackOf(scriptLine, column, inner)]
         enhanced == extractEnhancedError(error, start, code)
     IN enhance' = [called |-> TRUE, isCustomTool |-> isCustomTool,
                    params |-> params, code |-> code, n |-> n, name |-> name,
                    message |-> message, stackLine |-> scriptLine,
                    userCodeStartLine |-> start, line |-> enhanced.line,
                    column |-> enhanced.column]
  /\ UNCHANGED nonEnhanceVars

\* the reply has been sent
ExecuteAnswered ==
  /\ enhance.called
  /\ enhance' = EnhanceIdle
  /\ UNCHANGED nonEnhanceVars

EnhanceInit == enhance = EnhanceIdle

EnhanceNext ==
  \/ /\ ~enhance.called
     /\ \E isCustomTool \in BOOLEAN, params \in ParamSets, code \in UserCodes,
           n \in 1 .. MaxCodeLines, name \in ErrorNames,
           message \in ErrorMessages, column \in Columns, inner \in BOOLEAN :
          Execute(isCustomTool, params, code, n, name, message, column, inner)
  \/ ExecuteAnswered

(***************************************************************************)
(* ------------------- DeployModal (deploy and undeploy) ----------------- *)
(***************************************************************************)
MaxAttempts == 3

nonDeployVars == <<collabVars, airVars, verifyVars, debugVars, sessionVars,
                   throttleVars, enhanceVars,
                     reloadVars>>

Attempts == {"deploy", "redeploy", "undeploy"}
\* what the fetch of /api/workflows/{id}/deploy settles with: a rejection, or
\* a response that is ok or not
FetchOutcomes == {"rejected", "ok", "notOk"}
NoInfo == [present |-> FALSE, isDeployed |-> FALSE, needsRedeployment |-> FALSE]
\* response.json(): it throws, or gives the body with its isDeployed
ParseOutcomes == [throws : {TRUE}, isDeployed : {FALSE}]
                 \cup [throws : {FALSE}, isDeployed : BOOLEAN]
AttemptIdle ==
  [pc |-> "idle", ok |-> FALSE, outcome |-> "none", returned |-> FALSE]

\* the flag an attempt holds while it runs
FlagOf(a) == IF a = "undeploy" THEN "isUndeploying" ELSE "isSubmitting"

\* a modal that records every successful POST as deployed
RecordedAlwaysDeployed(newDeployStatus) == TRUE

\* the status handed to setDeploymentStatus, lines 252-257 and 326-331
RecordedStatus(newDeployStatus) == newDeployStatus

\* useWorkflowRegistry setDeploymentStatus(workflowId, isDeployed, ...): the
\* registry records the status of the workflow
setDeploymentStatus(store, isDeployed) == [store EXCEPT !.isDeployed = isDeployed]

\* setWorkflowNeedsRedeployment(workflowId, needsRedeployment)
setWorkflowNeedsRedeployment(store, value) ==
  [store EXCEPT !.needsRedeployment = value]

\* the finally of lines 279-281, 302-304 and 346-348
Finally(m, a) == [m EXCEPT ![FlagOf(a)] = FALSE]

\* onDeploy, handleUndeploy and handleRedeploy up to the await of the fetch,
\* lines 227-231, 284-290 and 307-320
StartAttempt(a) ==
  /\ attempts[a].pc \in {"idle", "done"}
  /\ attemptCount < MaxAttempts
  /\ attemptCount' = attemptCount + 1
  /\ attempts' = [attempts EXCEPT ![a] = [AttemptIdle EXCEPT !.pc = "fetching"]]
  /\ modal' = [modal EXCEPT ![FlagOf(a)] = TRUE,
                            !.apiDeployError =
                              IF a = "deploy" THEN "null" ELSE @]
  /\ UNCHANGED deployStore
  /\ UNCHANGED nonDeployVars

\* the fetch settles: a rejection ends the attempt in its catch; a successful
\* DELETE records the undeployment (lines 297-299); any other response is
\* read with response.json()
DeployFetchSettles(a, outcome) ==
  /\ attempts[a].pc = "fetching"
  /\ IF outcome = "rejected"
       THEN /\ attempts' = [attempts EXCEPT ![a] =
                 [@ EXCEPT !.pc = "done", !.outcome = "failed"]]
            /\ modal' = Finally(modal, a)
            /\ UNCHANGED deployStore
     ELSE IF a = "undeploy" /\ outcome = "ok"
       THEN /\ attempts' = [attempts EXCEPT ![a] =
                 [@ EXCEPT !.pc = "done", !.ok = TRUE, !.outcome = "succeeded"]]
            /\ deployStore' = setDeploymentStatus(deployStore, FALSE)
            /\ modal' = Finally([modal EXCEPT !.chatExists = FALSE,
                                              !.open = FALSE], a)
     ELSE /\ attempts' = [attempts EXCEPT ![a] =
               [@ EXCEPT !.pc = "parsing", !.ok = (outcome = "ok")]]
          /\ UNCHANGED <<deployStore, modal>>
  /\ UNCHANGED attemptCount
  /\ UNCHANGED nonDeployVars

\* response.json() settles, lines 245-274 and 322-340: the body of a response
\* that is not ok becomes the error thrown; the body of one that is ok is
\* recorded
DeployParseSettles(a, parsed) ==
  /\ attempts[a].pc = "parsing"
  /\ IF attempts[a].ok /\ ~parsed.throws
       THEN /\ attempts' = [attempts EXCEPT ![a] =
                 [@ EXCEPT !.pc = "refetching", !.outcome = "succeeded",
                           !.returned = parsed.isDeployed]]
            /\ deployStore' = setWorkflowNeedsRedeployment(
                 setDeploymentStatus(deployStore, RecordedStatus(parsed.isDeployed)),
                 FALSE)
            /\ modal' = [modal EXCEPT
                 !.needsRedeployment = FALSE,
                 !.deploymentInfo =
                   IF a = "deploy"
                     THEN [present |-> TRUE, isDeployed |-> TRUE,
                           needsRedeployment |-> FALSE]
                     ELSE @]
       ELSE /\ attempts' = [attempts EXCEPT ![a] =
                 [@ EXCEPT !.pc = "done", !.outcome = "failed"]]
            /\ modal' = Finally(modal, a)
            /\ UNCHANGED deployStore
  /\ UNCHANGED attemptCount
  /\ UNCHANGED nonDeployVars

\* refetchDeployedState() settles, lines 276-281 and 338-348
RefetchSettles(a, throws) ==
  /\ attempts[a].pc = "refetching"
  /\ attempts' = [attempts EXCEPT ![a] = [@ EXCEPT !.pc = "done"]]
  /\ modal' = Finally(
       IF a = "redeploy" /\ ~throws /\ modal.deploymentInfo.present
         THEN [modal EXCEPT !.deploymentInfo.needsRedeployment = FALSE]
         ELSE modal, a)
  /\ UNCHANGED <<deployStore, attemptCount>>
  /\ UNCHANGED nonDeployVars

\* the modal opened on a deployed workflow that was changed since
DeployInit ==
  /\ deployStore = [isDeployed |-> TRUE, needsRedeployment |-> TRUE]
  /\ modal = [isSubmitting |-> FALSE, isUndeploying |-> FALSE,
              needsRedeployment |-> deployStore.needsRedeployment,
              deploymentInfo |-> NoInfo, chatExists |-> deployStore.isDeployed,
              open |-> TRUE, apiDeployError |-> "null"]
  /\ attempts = [a \in Attempts |-> AttemptIdle]
  /\ attemptCount = 0

DeployNext ==
  \/ \E a \in Attempts : StartAttempt(a)
  \/ \E a \in Attempts, outcome \in FetchOutcomes : DeployFetchSettles(a, outcome)
  \/ \E a \in Attempts, parsed \in ParseOutcomes : DeployParseSettles(a, parsed)
  \/ \E a \in Attempts, throws \in BOOLEAN : RefetchSettles(a, throws)

(***************************************************************************)
(* The remaining remote handlers of the hook: handleVariableUpdate and the *)
(* reload of a reverted workflow.                                          *)
(***************************************************************************)
MaxReloads == 2

nonReloadVars == <<airVars, verifyVars, debugVars, sessionVars, throttleVars,
                   enhanceVars, deployVars>>

\* what the fetch of /api/workflows/{id} gives: a rejection, a response that
\* is not ok, a body without state, or the reverted state
ReloadOutcomes == {"rejected", "notOk", "noState", "state"}
\* the setState that throws while the reverted state is applied, if any
ReloadThrows == {"none", "workflow", "subblocks"}

\* the deployed state the workflow is reverted to
RevertedBlocks ==
  [b \in BlockIds |-> IF b = "b1" THEN [type |-> "agent", position |-> 0]
                       ELSE NoBlock]
RevertedSubBlockValues == [b \in BlockIds |-> [sb \in SubIds |-> ""]]

\* handleVariableUpdate, lines 305-327: the fields of a variable are not
\* modelled, the ids of the variables stay as they are
HandleVariableUpdate(throws) ==
  /\ remotePc = "idle"
  /\ callLog' = NoLog
  /\ IF isApplyingRemoteChange
       THEN UNCHANGED <<isApplyingRemoteChange, remotePc>>
       ELSE /\ isApplyingRemoteChange' = TRUE
            /\ remotePc' = "applying"
  /\ UNCHANGED nonCollabVars
  /\ UNCHANGED <<calls, blockConfig, activeWorkflowId, currentWorkflowId,
                 isShowingDiff, blocks, subBlockValues, variables, queue,
                 nextUuid, lastPositionTimestamps, newest, dirty>>

\* handleWorkflowReverted up to its fetch, lines 350-359
HandleWorkflowReverted(workflowId) ==
  /\ remotePc = "idle"
  /\ reload.pc = "idle"
  /\ reload.count < MaxReloads
  /\ reload' = IF activeWorkflowId = workflowId
                 THEN [reload EXCEPT !.pc = "fetching", !.count = @ + 1]
                 ELSE [reload EXCEPT !.count = @ + 1]
  /\ UNCHANGED collabVars
  /\ UNCHANGED nonReloadVars

\* the fetch settles, lines 360-411: the reverted state is applied under the
\* flag, which the finally of line 399 clears (RemoteReturn)
ReloadSettles(outcome, throws) ==
  /\ remotePc = "idle"
  /\ reload.pc = "fetching"
  /\ IF outcome = "state"
       THEN /\ reload' = [reload EXCEPT !.pc = "idle", !.applied = TRUE,
                                        !.threw = (throws # "none")]
            /\ isApplyingRemoteChange' = TRUE
            /\ remotePc' = "applying"
            /\ blocks' = IF throws = "workflow" THEN blocks ELSE RevertedBlocks
            /\ subBlockValues' = IF throws = "none" THEN RevertedSubBlockValues
                                 ELSE subBlockValues
            /\ dirty' = [b \in BlockIds |->
                          IF throws # "workflow" /\ blocks[b] # RevertedBlocks[b]
                            THEN newest[b].seen ELSE dirty[b]]
            /\ callLog' = NoLog
       ELSE /\ reload' = [reload EXCEPT !.pc = "idle"]
            /\ UNCHANGED <<isApplyingRemoteChange, remotePc, blocks,
                           subBlockValues, dirty, callLog>>
  /\ UNCHANGED <<calls, blockConfig, activeWorkflowId, currentWorkflowId,
                 isShowingDiff, variables, queue, nextUuid,
                 lastPositionTimestamps, newest>>
  /\ UNCHANGED nonReloadVars

ReloadInit == reload = [pc |-> "idle", count |-> 0, applied |-> FALSE, threw |-> FALSE]

(***************************************************************************)
(* Specification of the remote events: every remote handler, with the      *)
(* local operations that a user or a store subscriber may call in between. *)
(***************************************************************************)
RemoteNext ==
  \/ \E ts \in {NoTs, 1}, throws \in BOOLEAN : RemoteUpdatePosition("b1", ts, 1, throws)
  \/ \E throws \in BOOLEAN : RemoteRemoveBlock("b1", throws)
  \/ \E throws \in BOOLEAN : RemoteAddBlock("b1", "agent", 0, throws)
  \/ \E value \in Values, throws \in BOOLEAN :
       HandleSubblockUpdate("b1", "s1", value, throws)
  \/ \E throws \in BOOLEAN : HandleVariableUpdate(throws)
  \/ \E w \in WorkflowIds : HandleWorkflowReverted(w)
  \/ \E outcome \in ReloadOutcomes, throws \in ReloadThrows :
       ReloadSettles(outcome, throws)
  \/ RemoteReturn
  \/ \E sb \in SubIds : SetSubblockValue("b1", sb, "v")
  \/ UpdateBlockPosition("b1", 1)

(***************************************************************************)
(* The state after construction, and one specification per subsystem.      *)
(***************************************************************************)
OthersInit ==
  /\ AirtableInit
  /\ SlackInit
  /\ GenericInit
  /\ WhatsAppInit
  /\ DebugInit
  /\ SessionInit
  /\ ThrottleInit
  /\ EnhanceInit
  /\ DeployInit
  /\ ReloadInit

Init == CollabInit /\ OthersInit

\* the same with any dependsOn graph as the block configuration
CascadeInit ==
  /\ blockConfig \in DependsOnGraphs
  /\ HookInit
  /\ OthersInit

SpecAirtable == Init /\ [][AirtableNext]_vars

SpecConcurrent == Init /\ [][ConcurrentNext]_vars

SpecSlack == Init /\ [][SlackNext]_vars

SpecGeneric == Init /\ [][GenericNext]_vars

SpecWhatsApp == Init /\ [][WhatsAppNext]_vars

SpecDebug == Init /\ [][DebugNext]_vars

SpecResume == Init /\ [][ResumeNext]_vars /\ ResumeFairness

SpecSession == Init /\ [][SessionNext]_vars

SpecThrottle == Init /\ [][ThrottleNext]_vars

SpecEnhance == Init /\ [][EnhanceNext]_vars

SpecDeploy == Init /\ [][DeployNext]_vars

SpecRemote == Init /\ [][RemoteNext]_vars

(***************************************************************************)
(* Specification of the dependent-clearing cascade, over every dependsOn   *)
(* graph of the block configuration.                                       *)
(***************************************************************************)
CascadeNext ==
  \/ \E sb \in SubIds, value \in Values : SetSubblockValue("b1", sb, value)
  \/ \E showing \in BOOLEAN : SetShowingDiff(showing)
  \/ \E id \in 1 .. MaxUuid : OperationConfirmed(id)

SpecCascade == CascadeInit /\ [][CascadeNext]_vars

(***************************************************************************)
(* Specification of the position ordering: remote block events, workflow   *)
(* switches and local moves.                                               *)
(***************************************************************************)
PositionNext ==
  \/ \E b \in BlockIds, ts \in Timestamps, p \in Positions, throws \in BOOLEAN :
       RemoteUpdatePosition(b, ts, p, throws)
  \/ \E b \in BlockIds, throws \in BOOLEAN : RemoteRemoveBlock(b, throws)
  \/ \E b \in BlockIds, throws \in BOOLEAN : RemoteAddBlock(b, "agent", 0, throws)
  \/ RemoteReturn
  \/ \E a \in {"w1", "w2"}, c \in {NoWorkflow, "w1"} : WorkflowIdsChange(a, c)
  \/ \E b \in BlockIds, p \in Positions : UpdateBlockPosition(b, p)

SpecPosition == Init /\ [][PositionNext]_vars

\* the events that reset the timestamp tracking, and the remote position
\* updates between them
ResetNext ==
  \/ \E b \in BlockIds, ts \in Timestamps, p \in Positions, throws \in BOOLEAN :
       RemoteUpdatePosition(b, ts, p, throws)
  \/ \E b \in BlockIds, throws \in BOOLEAN : RemoteRemoveBlock(b, throws)
  \/ RemoteReturn
  \/ \E a \in {"w1", "w2"}, c \in {NoWorkflow, "w1"} : WorkflowIdsChange(a, c)

SpecReset == Init /\ [][ResetNext]_vars

(***************************************************************************)
(* Specification of the local collaborative operations, called from the    *)
(* UI or from a store subscriber while a remote change is being applied.   *)
(***************************************************************************)
CollabNext ==
  \/ \E sb \in SubIds, value \in Values, throws \in BOOLEAN :
       HandleSubblockUpdate("b1", sb, value, throws)
  \/ RemoteReturn
  \/ \E a \in {"w1", "w2"} : WorkflowIdsChange(a, "w1")
  \/ \E showing \in BOOLEAN : SetShowingDiff(showing)
  \/ \E id \in 1 .. MaxUuid : OperationConfirmed(id)
  \/ \E b \in BlockIds, type \in BlockTypes : AddBlock(b, type, 0)
  \/ \E b \in BlockIds : RemoveBlock(b)
  \/ \E b \in BlockIds : UpdateBlockPosition(b, 1)
  \/ \E b \in BlockIds : UpdateLoopType(b)
  \/ \E v \in VarIds : AddVariable(v)
  \/ \E v \in VarIds : DeleteVariable(v)
  \/ \E sb \in SubIds : SetTagSelection("b1", sb, "v")
  \/ \E sb \in SubIds, value \in Values : SetSubblockValue("b1", sb, value)
  \/ \E b \in BlockIds, n \in BlockIds : DuplicateBlock(b, n)

SpecCollab == Init /\ [][CollabNext]_vars

(***************************************************************************)
(* Claims about the collaborative hook.                                    *)
(***************************************************************************)
LogIndices(ev) == {i \in 1 .. Len(callLog.log) : callLog.log[i].ev = ev}

QueueIds(q) == {q[i].id : i \in 1 .. Len(q)}

C1_Inv ==
  \A b \in BlockIds :
    newest[b].seen /\ ~dirty[b] =>
      /\ blocks[b].position = newest[b].position
      /\ MapGetOrZero(lastPositionTimestamps, b) = newest[b].timestamp

C1_Step ==
  (remotePc = "idle" /\ remotePc' = "applying" /\ callLog'.name = "update-position"
     /\ callLog'.update.timestamp >= 1) =>
    LET update == callLog'.update
        b == update.block
        lastApplied == IF newest[b].seen THEN newest[b].timestamp ELSE 0
    IN IF update.timestamp < lastApplied
         THEN blocks'[b] = blocks[b]
         ELSE blocks'[b].position = update.position

\* C1: per block, timestamped remote position updates are applied in
\* non-decreasing timestamp order: an update older than the last applied one is
\* skipped and leaves the block unchanged, any other one sets the position, so
\* after a run of timestamped updates the position is the payload of the update
\* with the greatest timestamp (the last received among equal timestamps).
C1_TimestampOrdering == []C1_Inv /\ [][C1_Step]_vars

\* an update older than the newest one has just been skipped: the block holds
\* the position of the newest one, not the one the late update carries
C1_Witness ==
  /\ remotePc = "applying"
  /\ callLog.name = "update-position"
  /\ callLog.update.timestamp >= 1
  /\ LET b == callLog.update.block IN
       /\ callLog.update.timestamp < newest[b].timestamp
       /\ ~dirty[b]
       /\ blocks[b].position = newest[b].position
       /\ blocks[b].position # callLog.update.position

\* C2: while a remote change is being applied, no collaborative operation adds
\* an entry to the operation queue or emits on the socket.
C2_NoEchoOfRemoteChange ==
  [][(isApplyingRemoteChange /\ calls' # calls) =>
       /\ QueueIds(queue') \subseteq QueueIds(queue)
       /\ nextUuid' = nextUuid
       /\ \A i \in 1 .. Len(callLog'.log) :
            callLog'.log[i].ev \notin {"enqueue", "emit"}]_vars

\* a collaborative operation was called while a remote change was being applied
\* and went as far as executeQueuedOperation or a local write
C2_Witness ==
  /\ callLog.remote
  /\ isApplyingRemoteChange
  /\ LogIndices("execute") # {}
  /\ LogIndices("write") # {}

\* C3: an edit issued through executeQueuedOperation in the active room, with no
\* diff shown and no remote change being applied, adds exactly one queue entry
\* with a fresh id, invokes its local action exactly once, and writes to the
\* local stores only after the entry was added; stated for the duplication of a
\* block.
C3_EnqueueBeforeLocalChange ==
  (/\ callLog.name = "collaborativeDuplicateBlock"
   /\ LogIndices("execute") # {}
   /\ ~callLog.remote /\ ~callLog.diff /\ callLog.inRoom) =>
    /\ Cardinality(LogIndices("enqueue")) = 1
    /\ \A i \in LogIndices("enqueue") :
         callLog.log[i].id = nextUuid /\ callLog.log[i].id \in QueueIds(queue)
    /\ Cardinality(LogIndices("localAction")) = 1
    /\ \A w \in LogIndices("write") : \A i \in LogIndices("enqueue") : i < w

(***************************************************************************)
(* Properties of the Airtable polling loop.                                *)
(***************************************************************************)
\* C4: whatever the Airtable responses are, one invocation of
\* fetchAndProcessAirtablePayloads issues at most 10 GET /payloads requests,
\* and once its call count has passed 10 it has stopped polling.
C4_AtMostTenRequests ==
  \A i \in Invocations :
    /\ air[i].requests <= 10
    /\ air[i].apiCallCount > 10 =>
         /\ air[i].pc \in {"finish", "done"}
         /\ ~air[i].mightHaveMore
         /\ air[i].requests = 10

\* ten requests were made, each answered with a new cursor and mightHaveMore,
\* and the invocation has ended
C4_Witness ==
  \E i \in Invocations :
    /\ air[i].requests = 10
    /\ air[i].allMore
    /\ air[i].apiCallCount = 11
    /\ air[i].pc = "done"

\* after a response with a new numeric cursor the loop is only re-entered
\* with that cursor written to the database
C5_Inv ==
  \A i \in Invocations :
    (air[i].pc = "loop" /\ air[i].requests > 0 /\ air[i].respCursor # NullCursor) =>
      /\ air[i].wrote = air[i].respCursor
      /\ air[i].currentCursor = air[i].respCursor

\* the cursor of each request, and what a write of the cursor does
C5_Step ==
  \A i \in Invocations :
    /\ air'[i].requests = air[i].requests + 1 =>
         IF air[i].requests = 0
           THEN air'[i].reqCursor =
                  IF air[i].stored.kind = "number" THEN air[i].stored ELSE NullCursor
           ELSE /\ air[i].respCursor # NullCursor
                /\ air[i].wrote = air[i].respCursor
                /\ air'[i].reqCursor = air[i].respCursor
    /\ (air'[i].wrote # air[i].wrote /\ air'[i].wrote # NullCursor) =>
         airDb' = air'[i].wrote

\* C5: a numeric cursor of a response that differs from the current one is
\* written to providerConfig in the database before the next GET /payloads
\* request is issued, and that request carries exactly this cursor; the first
\* request carries the stored cursor, or none when no number is stored.
C5_CursorPersistedBeforeNextRequest == []C5_Inv /\ [][C5_Step]_vars

\* a second request is in flight with the cursor of the first response, the
\* first one having carried another, stored cursor
C5_Witness ==
  \E i \in Invocations :
    /\ air[i].pc = "fetching"
    /\ air[i].requests = 2
    /\ air[i].stored # NullCursor
    /\ air[i].reqCursor # air[i].stored
    /\ air[i].reqCursor = airDb

(***************************************************************************)
(* Properties of the webhook verifications.                                *)
(***************************************************************************)
\* the string is a decimal number
IsDecimal(s) == s # <<>> /\ \A i \in 1 .. Len(s) : IsDigit(s[i])

\* C6: validateSlackSignature returns true if and only if the secret, the
\* signature, the timestamp and the body are non-empty, the timestamp is
\* within 300 seconds of the current time, the signature is 'v0=' followed by
\* the hex HMAC of 'v0:{timestamp}:{body}' under the secret, and no internal
\* error occurred.
C6_SlackSignatureIff ==
  slack.called =>
    (slack.result <=>
       /\ slack.signingSecret # <<>> /\ slack.signature # <<>>
       /\ slack.timestamp # <<>> /\ slack.body # <<>>
       /\ IsDecimal(slack.timestamp)
       /\ Abs(slack.now - ParseDigits(slack.timestamp, 1, 0)) <= 300
       /\ slack.signature =
            <<"v", "0", "=">> \o HmacHex(slack.signingSecret,
              <<"v", "0", ":">> \o slack.timestamp \o <<":">> \o slack.body)
       /\ ~slack.signThrows)

\* the request presents the configured token as a Bearer Authorization header
\* or in the configured secret header
PresentsToken(cfg, headers) ==
  /\ Truthy(cfg.token)
  /\ \/ headers["authorization"] = Str(BearerPrefix \o cfg.token.v)
     \/ cfg.secretHeaderName # "" /\ headers[cfg.secretHeaderName] = cfg.token

\* the client IP of the request is in the non-empty list of allowed IPs
IpAllowed(cfg, headers) ==
  \E i \in 1 .. Len(cfg.allowedIps.items) : cfg.allowedIps.items[i] = ClientIp(headers)

\* C7: with requireAuth enabled a generic webhook accepts a request only if
\* it presents the configured token, and answers 401 otherwise; a request
\* that is not refused for its token is answered 403 when allowedIps is a
\* non-empty list without the client IP.
C7_GenericRequiresToken ==
  (generic.called /\ generic.provider = "generic") =>
    LET cfg == generic.providerConfig
        headers == generic.headers
        mustAuth == cfg.requireAuth
        authOk == ~mustAuth \/ PresentsToken(cfg, headers)
        listed == cfg.allowedIps.kind = "array" /\ Len(cfg.allowedIps.items) > 0
    IN /\ (mustAuth /\ generic.result.isNull) => PresentsToken(cfg, headers)
       /\ (mustAuth /\ ~PresentsToken(cfg, headers)) => generic.result.status = 401
       /\ (authOk /\ listed) =>
            (generic.result.status = 403 <=> ~IpAllowed(cfg, headers))

\* C8: handleWhatsAppVerification returns null when mode, token or challenge
\* is absent (null or empty); otherwise 400 when mode is not 'subscribe', 200
\* with exactly the challenge as body if and only if the token is the
\* verificationToken of an active WhatsApp webhook, and 403 when none matches.
C8_WhatsAppHandshake ==
  whatsapp.called =>
    LET mode == whatsapp.mode
        token == whatsapp.token
        challenge == whatsapp.challenge
        matching == \E i \in 1 .. Len(whatsapp.table) :
                      /\ whatsapp.table[i].provider = "whatsapp"
                      /\ whatsapp.table[i].isActive
                      /\ whatsapp.table[i].verificationToken = token
    IN IF ~(Present(mode) /\ Present(token) /\ Present(challenge))
         THEN whatsapp.result.isNull
       ELSE IF mode.v # "subscribe"
         THEN ~whatsapp.result.isNull /\ whatsapp.result.status = 400
       ELSE /\ ~whatsapp.result.isNull
            /\ matching <=> (whatsapp.result.status = 200
                             /\ whatsapp.result.body = challenge.v)
            /\ ~matching <=> whatsapp.result.status = 403

\* a verification answered 200 although the table also holds a webhook with
\* another token and one that is not active
C8_Witness ==
  /\ whatsapp.called
  /\ whatsapp.result.status = 200
  /\ whatsapp.result.body = "c"
  /\ Len(whatsapp.table) = 2
  /\ whatsapp.table[1].verificationToken # whatsapp.token

(***************************************************************************)
(* Properties of handleStepDebug.                                          *)
(***************************************************************************)
\* a valid debug state: an executor, a debug context and a pending block
ValidDebugState(s) ==
  s.executor # NoExecutor /\ s.debugContext # NoContext /\ s.pendingBlocks # <<>>

\* the debug state is fully reset
FullyReset ==
  /\ executor = NoExecutor
  /\ debugContext = NoContext
  /\ pendingBlocks = <<>>
  /\ ~isExecuting
  /\ ~isDebugging

\* the result is no debug session or has no pending blocks
ResultEndsSession(result) ==
  ~result.isDebugSession \/ ~result.pendingBlocks.defined \/ result.pendingBlocks.v = <<>>

\* what handleStepDebug does up to the result of continueExecution, and what
\* it does with a result that ends the session
StepDebugCallsAndResets ==
  /\ step.outcome = "invalid" =>
       ~ValidDebugState(step.before) /\ step.calls = 0 /\ FullyReset
  /\ step.pc = "continuing" =>
       /\ ValidDebugState(step.before)
       /\ step.calls = 1
       /\ step.args = [blocks |-> step.before.pendingBlocks,
                       context |-> step.before.debugContext]
  /\ step.outcome \in {"complete", "continued", "error"} => step.calls = 1
  /\ (step.pc = "idle" /\ step.outcome = "complete") =>
       ResultEndsSession(step.result) /\ FullyReset
  /\ step.outcome = "continued" =>
       /\ ~ResultEndsSession(step.result)
       /\ pendingBlocks = step.result.pendingBlocks.v
       /\ executor = step.before.executor
       /\ isExecuting = step.before.isExecuting
       /\ isDebugging = step.before.isDebugging

\* C9 as stated: ... and after a result that continues the session the
\* context and the pending blocks are those of the result.
C9_ContextOfResult ==
  /\ StepDebugCallsAndResets
  /\ step.outcome = "continued" => debugContext = step.result.context

\* C9: handleStepDebug in a valid debug state calls continueExecution once
\* with the pending blocks and the context; a result that is no debug session
\* or has no pending blocks resets the debug state; any other result replaces
\* the pending blocks by its own and the context by its own when it carries
\* one, the context staying as it was when it carries none, and the session
\* stays active. In an invalid state it resets and makes no call.
C9_StepDebug ==
  /\ StepDebugCallsAndResets
  /\ step.outcome = "continued" =>
       debugContext = IF step.result.context # NoContext
                        THEN step.result.context
                        ELSE step.before.debugContext

\* a step continued the session with a result that carries no context
C9_Witness ==
  /\ step.outcome = "continued"
  /\ step.result.context = NoContext
  /\ debugContext = "ctx1"
  /\ pendingBlocks = <<"b">>
  /\ step.args.blocks = <<"a">>

(***************************************************************************)
(* Properties of the SessionRequestBlocker.                                *)
(***************************************************************************)
\* the caller awaits a fetch
Awaiting(c) == callers[c].pc \in {"owner", "waiter"}

\* at most one fetch is in flight, and it is the one every waiting call awaits
C10_Inv ==
  /\ Cardinality(InFlight) <= 1
  /\ InFlight # {} => pendingRequest \in InFlight
  /\ \A c \in Callers : Awaiting(c) => callers[c].awaits \in InFlight

\* a call made while a fetch is in flight starts no fetch and awaits that
\* one; when the fetch settles every call awaiting it ends with its outcome
C10_Step ==
  /\ \A c \in Callers :
       (callers'[c].n = callers[c].n + 1 /\ InFlight # {}) =>
         /\ callers'[c].pc = "waiter"
         /\ callers'[c].awaits \in InFlight
         /\ fetches' = fetches
  /\ \A f \in InFlight :
       fetches'[f].state # "pending" =>
         \A c \in Callers :
           (Awaiting(c) /\ callers[c].awaits = f) =>
             /\ callers'[c].pc = IF fetches'[f].state = "resolved"
                                   THEN "returned" ELSE "rejected"
             /\ callers'[c].result = fetches'[f].value

\* C10: at most one /api/auth/get-session fetch is in flight at any time;
\* every getSession call made while a fetch is pending awaits that fetch and
\* resolves or rejects with its outcome, however the callers interleave.
C10_SingleFetchInFlight == []C10_Inv /\ [][C10_Step]_vars

\* two calls made while the fetch of a third was pending ended with the
\* outcome of that fetch, the only one made
C10_Witness ==
  /\ Len(fetches) = 1
  /\ fetches[1].state = "resolved"
  /\ fetches[1].value = "s1"
  /\ \A c \in Callers : callers[c].pc = "returned" /\ callers[c].result = "s1"
                        /\ ~callers[c].cached /\ callers[c].awaits = 1
  /\ Cardinality({callers[c].now : c \in Callers}) = 3

\* the fetches that completed with a response
Completed == {f \in 1 .. Len(fetches) : fetches[f].state = "resolved"}

\* the previous completed fetch: fetches are made one after the other, so it
\* is the one made last
LastCompleted == CHOOSE f \in Completed : \A g \in Completed : g <= f

\* the step is a call of getSession by c
CallsGetSession(c) == callers'[c].n = callers[c].n + 1

C11_Step ==
  \A c \in Callers :
    (CallsGetSession(c) /\ Completed # {}) =>
      IF clock - fetches[LastCompleted].at < CACHE_DURATION
        THEN /\ callers'[c].pc = "returned"
             /\ callers'[c].result = fetches[LastCompleted].value
             /\ fetches' = fetches
        ELSE Len(fetches') = Len(fetches) + 1

\* C11: a getSession call made less than 30 seconds after the previous
\* completed fetch returns the response of that fetch and issues no request,
\* whatever the response was; a call made 30 seconds or more after it issues
\* a new fetch.
C11_CachedForThirtySeconds == [][C11_Step]_vars

(***************************************************************************)
(* Properties of the get-session throttle.                                 *)
(***************************************************************************)
\* less than 5 seconds have passed since a get-session GET of the client id
\* was processed and populated the cache
Within(k) ==
  populated[k].seen /\ throttleClock - populated[k].at < SESSION_CACHE_DURATION

\* the cache entry is not removed before its 5 seconds have elapsed
C12_Inv == \A k \in ClientIds : Within(k) => sessionThrottle[k].present

\* a get-session GET received within the 5 seconds is answered at once, the
\* auth handler is not invoked, and the reply has the status and the JSON
\* body of the reply that populated the cache
C12_Step ==
  \A g \in GetIds :
    (gets'[g].pc # gets[g].pc /\ gets[g].pc # "handler" /\ gets'[g].getSession
       /\ Within(gets'[g].clientId)) =>
      /\ gets'[g].pc = "done"
      /\ gets'[g].throttled
      /\ gets'[g].reply.status = populated[gets'[g].clientId].status
      /\ IsJson(gets'[g].reply.body)
      /\ JsonParse(gets'[g].reply.body) = populated[gets'[g].clientId].data

\* C12: for 5 seconds after a get-session GET of a client id (x-forwarded-for,
\* else user-agent, else 'anonymous') has been processed, further get-session
\* GETs of that client id are answered from the cache without invoking the
\* auth handler, with the status and the JSON body of the reply that
\* populated the cache; the entry is not removed before its 5 seconds have
\* elapsed.
C12_ThrottleForFiveSeconds == []C12_Inv /\ [][C12_Step]_vars

(***************************************************************************)
(* Properties of the error enhancement of the function-execute route.      *)
(***************************************************************************)
\* C13: for an error raised at line n (1-based) of the user's code the route
\* reports line n: the reported line is the stack line of the wrapped script
\* minus userCodeStartLine plus 1, where userCodeStartLine is 3 for a plain
\* function and 4 plus the number of parameters for a custom tool, for every
\* error type and every n within the user's code.
C13_ReportsUserLine ==
  enhance.called =>
    /\ enhance.line = enhance.n
    /\ enhance.line = enhance.stackLine - enhance.userCodeStartLine + 1
    /\ enhance.userCodeStartLine =
         IF enhance.isCustomTool
           THEN 4 + Cardinality(ExecutionParamKeys(enhance.params))
           ELSE 3

\* the same for the errors that are no SyntaxError with an 'Unexpected token'
\* or 'Unexpected end of input' message
C13_ReportsUserLineOfOthers ==
  (enhance.called /\ ~(enhance.name = "SyntaxError" /\ IsUnexpected(enhance.message)))
    => C13_ReportsUserLine

(***************************************************************************)
(* Properties of the deploy modal.                                         *)
(***************************************************************************)
\* the step in which the attempt learns that its request succeeded
RequestSucceeds(a) ==
  attempts[a].outcome = "none" /\ attempts'[a].outcome = "succeeded"

\* the step in which the attempt learns that its request failed
RequestFails(a) ==
  attempts[a].outcome = "none" /\ attempts'[a].outcome = "failed"

\* the step in which the attempt completes
Completes(a) == attempts[a].pc # "done" /\ attempts'[a].pc = "done"

C14_Step ==
  \A a \in Attempts :
    /\ (RequestSucceeds(a) /\ a # "undeploy") =>
         /\ deployStore'.isDeployed = attempts'[a].returned
         /\ ~modal'.needsRedeployment
         /\ ~deployStore'.needsRedeployment
    /\ (RequestSucceeds(a) /\ a = "undeploy") => ~deployStore'.isDeployed
    /\ RequestFails(a) => deployStore'.isDeployed = deployStore.isDeployed
    /\ Completes(a) => ~modal'[FlagOf(a)]

ToldServer(log) == \E i \in 1 .. Len(log) : log[i].ev \in {"enqueue", "emit"}

\* C15: no collaborative operation changes local state without telling the
\* server: a call that changes the workflow, sub-block or variable store also
\* enqueues or emits the operation, and a call whose guards skip the server
\* operation leaves the stores and the operation queue unchanged.
C15_NoSilentLocalChange ==
  [][calls' # calls =>
       /\ <<blocks', subBlockValues', variables'>> # <<blocks, subBlockValues, variables>>
            => ToldServer(callLog'.log)
       /\ ~ToldServer(callLog'.log) =>
            /\ <<blocks', subBlockValues', variables'>> = <<blocks, subBlockValues, variables>>
            /\ queue' = queue]_vars

\* C16: while a workflow diff is shown, no collaborative operation of the hook
\* adds an entry to the operation queue or emits a socket operation.
C16_NothingSentWhileDiffShown ==
  [][(isShowingDiff /\ calls' # calls) =>
       /\ ~ToldServer(callLog'.log)
       /\ QueueIds(queue') \subseteq QueueIds(queue)
       /\ nextUuid' = nextUuid]_vars

\* the flag is set exactly while a remote handler is executing
C17_Inv == remotePc = "idle" => ~isApplyingRemoteChange

\* a handler sets the flag on entry and clears it on exit; a local operation
\* called while no handler is executing does not find the flag set
C17_Step ==
  /\ (remotePc = "idle" /\ remotePc' = "applying") => isApplyingRemoteChange'
  /\ (remotePc = "applying" /\ remotePc' = "idle") => ~isApplyingRemoteChange'
  /\ (calls' # calls /\ remotePc = "idle") => ~callLog'.remote

\* C17: isApplyingRemoteChange is false whenever no remote-event handler is
\* executing: handleWorkflowOperation, handleSubblockUpdate,
\* handleVariableUpdate and the reload of a reverted workflow set it on entry
\* and clear it on exit, even when applying the change throws, so after any
\* sequence of remote events local operations are not suppressed and later
\* remote events are not dropped.
C17_FlagFalseOutsideHandlers == []C17_Inv /\ [][C17_Step]_vars

\* after a reload whose setState threw, with no handler executing, a local
\* operation has been enqueued
C17_Witness ==
  /\ reload.threw
  /\ remotePc = "idle"
  /\ ~isApplyingRemoteChange
  /\ callLog.name = "collaborativeSetSubblockValue"
  /\ ~callLog.remote
  /\ ToldServer(callLog.log)

(***************************************************************************)
(* Properties of the dependent-clearing cascade.                           *)
(***************************************************************************)
\* the sub-blocks that depend on one of the set, directly
DirectDependents(set) == {d \in SubIds : blockConfig[d] \cap set # {}}

\* the sub-blocks that depend on sb directly or transitively
RECURSIVE DependentsFrom(_)
DependentsFrom(set) ==
  IF DirectDependents(set) \subseteq set THEN set
  ELSE DependentsFrom(set \cup DirectDependents(set))

TransitiveDependents(sb) == DependentsFrom(DirectDependents({sb}))

\* collaborativeSetSubblockValue was called on b1 in the active room, with no
\* diff shown and no remote change in progress, and has returned
SetSubblockValueReturned ==
  /\ callLog.name = "collaborativeSetSubblockValue"
  /\ ~callLog.remote /\ ~callLog.diff /\ callLog.inRoom

\* C18: after collaborativeSetSubblockValue(blockId, subblockId, value)
\* returns (active room, no diff, no remote change), the sub-block holds value
\* and every other sub-block of the block that depends on it, directly or
\* transitively, holds the empty string, for any dependsOn graph, cyclic ones
\* included.
C18_ValueSetDependentsCleared ==
  SetSubblockValueReturned =>
    LET subblockId == callLog.args[1]
        value == callLog.args[2]
    IN /\ subBlockValues["b1"][subblockId] = value
       /\ \A d \in TransitiveDependents(subblockId) \ {subblockId} :
            subBlockValues["b1"][d] = ""

\* the entries the call added to the queue
EnqueuedByCall ==
  {i \in 1 .. Len(queue) :
     \E j \in LogIndices("enqueue") : callLog.log[j].id = queue[i].id}

\* C19: the cascade of collaborativeSetSubblockValue terminates for every
\* dependsOn graph, cyclic and self-referencing ones included, and within one
\* cascade each sub-block is written and enqueued at most once.
C19_EachSubblockOnce ==
  SetSubblockValueReturned =>
    \A sb \in SubIds :
      /\ Cardinality({i \in LogIndices("write") : callLog.log[i].subject = sb}) <= 1
      /\ Cardinality({i \in EnqueuedByCall : queue[i].detail = sb}) <= 1

(***************************************************************************)
(* Properties of remote position updates without a timestamp.              *)
(***************************************************************************)
\* a remote 'update-position' has just been received and its handler entered
ReceivedUpdatePosition ==
  remotePc = "idle" /\ remotePc' = "applying" /\ callLog'.name = "update-position"

C20_Step ==
  ReceivedUpdatePosition =>
    LET update == callLog'.update
        recorded == MapGetOrZero(lastPositionTimestamps, update.block)
    IN /\ update.timestamp = NoTs =>
            /\ blocks'[update.block].position = update.position
            /\ lastPositionTimestamps' = lastPositionTimestamps
       /\ update.timestamp >= 1 =>
            IF update.timestamp >= recorded
              THEN blocks'[update.block].position = update.position
              ELSE blocks' = blocks

\* C20: a remote 'update-position' that carries no timestamp is applied
\* unconditionally and leaves the recorded last timestamp of the block
\* unchanged, so a later timestamped update of the block is still compared
\* against the timestamp recorded before.
C20_UntimestampedLeavesTimestamp == [][C20_Step]_vars

\* an update without timestamp has just moved a block whose recorded
\* timestamp is 2 away from the position of its newest timestamped update
C20_Witness ==
  /\ remotePc = "applying"
  /\ callLog.name = "update-position"
  /\ callLog.update.timestamp = NoTs
  /\ LET b == callLog.update.block IN
       /\ b \in DOMAIN lastPositionTimestamps
       /\ lastPositionTimestamps[b] = 2
       /\ newest[b].timestamp = 2
       /\ blocks[b].position = callLog.update.position
       /\ blocks[b].position # newest[b].position

(***************************************************************************)
(* Reset of the position-timestamp tracking.                               *)
(***************************************************************************)
\* a remote 'remove' has just been received and has run to its end
ReceivedRemove ==
  remotePc = "idle" /\ remotePc' = "applying" /\ callLog'.name = "remove"

\* the active workflow has just changed to one that is not the joined one
SwitchedWorkflow ==
  /\ activeWorkflowId' # activeWorkflowId
  /\ activeWorkflowId' # NoWorkflow
  /\ activeWorkflowId' # currentWorkflowId'

\* no timestamped update of b has been received since its tracking was reset
TrackingReset(b) == ~newest[b].seen

C21_Step ==
  /\ ReceivedRemove => callLog'.update.block \notin DOMAIN lastPositionTimestamps'
  /\ SwitchedWorkflow => DOMAIN lastPositionTimestamps' = {}
  /\ (ReceivedUpdatePosition /\ callLog'.update.timestamp >= 1) =>
       LET update == callLog'.update IN
         TrackingReset(update.block) =>
           /\ blocks'[update.block].position = update.position
           /\ MapGetOrZero(lastPositionTimestamps', update.block) = update.timestamp

\* C21: a remote 'remove' of a block deletes the block's recorded timestamp,
\* and a change of the active workflow to one that is not the joined workflow
\* clears every recorded timestamp; the first timestamped position update of
\* a block after either is applied and recorded, whatever its timestamp.
C21_TrackingReset == [][C21_Step]_vars

\* b1 was removed by a remote 'remove', and the timestamped update received
\* next, with the least timestamp, has set its position and is recorded
C21_Witness ==
  /\ remotePc = "applying"
  /\ callLog.name = "update-position"
  /\ callLog.update = [block |-> "b1", timestamp |-> 1, position |-> 1]
  /\ blocks["b1"] = [type |-> "undefined", position |-> 1]
  /\ lastPositionTimestamps = [x \in {"b1"} |-> 1]
  /\ newest["b1"] = [seen |-> TRUE, timestamp |-> 1, position |-> 1]

(***************************************************************************)
(* Properties of the Airtable payloads handed to workflow execution.       *)
(***************************************************************************)
\* the invocation has returned the input built from the payloads it collected
ReturnedInput(i) == air[i].pc = "done" /\ air[i].result = "input"

\* C22: when an invocation returns the input and its last response brought
\* payloads and a new numeric cursor, that cursor is the one stored in the
\* webhook's providerConfig; a failure to persist it returns no input.
C22_ReturnedAfterCursorPersisted ==
  \A i \in Invocations :
    (ReturnedInput(i) /\ air[i].respPayloads # {} /\ air[i].respCursor # NullCursor) =>
      /\ air[i].wrote = air[i].respCursor
      /\ airDb = air[i].respCursor

\* C23: two invocations for the same webhook that have both returned their
\* input have no payload in common.
C23_NoPayloadReturnedTwice ==
  \A i, j \in Invocations :
    (i # j /\ ReturnedInput(i) /\ ReturnedInput(j)) =>
      air[i].allPayloads \cap air[j].allPayloads = {}

(***************************************************************************)
(* Properties of handleResumeDebug.                                        *)
(***************************************************************************)
\* a handleResumeDebug is between its validation and its return
ResumeRunning == step.pc \in {"looping", "resuming", "persisting"}

\* a handleResumeDebug has returned
ResumeReturned ==
  step.pc = "idle" /\ step.outcome \in {"resumed", "resume error", "resume invalid"}

C24_Inv ==
  /\ step.calls <= maxIterations
  /\ step.ended => step.pc # "resuming"
  /\ step.outcome = "resume invalid" => step.calls = 0
  /\ ResumeReturned => FullyReset

\* C24: handleResumeDebug calls executor.continueExecution at most 500
\* times and not again after a result without pending blocks, without context
\* or that is no debug session; once it has returned, after completion, the
\* iteration limit, a thrown error or an invalid debug state, the debug state
\* is fully reset; and a resume that is running returns.
C24_ResumeTerminates == []C24_Inv /\ (ResumeRunning ~> ResumeReturned)

\* the iteration limit has ended a resume: 500 calls, each result a debug
\* session with a context and pending blocks, and the debug state is reset
C24_Witness ==
  /\ ResumeReturned
  /\ step.outcome = "resumed"
  /\ step.calls = maxIterations
  /\ step.iterationCount = maxIterations
  /\ ~step.ended
  /\ Len(step.args.blocks) > 0
  /\ FullyReset

====
